---- MODULE Spec2Model ----
(***************************************************************************)
(* The classify endpoint of the Survey Assist API                          *)
(* (api/routes/v1/classify.py) with the rephrase table it reads            *)
(* (api/services/sic_rephrase_client.py) and the shortlist client it calls *)
(* (api/services/base_vector_store_client.py).                             *)
(*                                                                         *)
(* One request is followed from its arrival to its single outcome.  Every  *)
(* action is the code that runs between two suspension points (awaits) of  *)
(* the handler; the replies of the collaborators (shortlist search, LLM)   *)
(* are chosen nondeterministically.                                        *)
(*                                                                         *)
(* Encoding of Python values:                                              *)
(*   Optional[X]    the empty tuple for None, <<x>> for a value x          *)
(*   free text, codes   tuples of one-character strings (strip, len and    *)
(*                      zero padding are computed on them)                 *)
(*   other strings  TLA+ strings                                           *)
(*   likelihoods    integers (percent)                                     *)
(***************************************************************************)
EXTENDS Integers, Sequences, FiniteSets, TLC

VARIABLES
    settings_default,        \* settings.DEFAULT_PROMPT_VERSION (environment)
    rephrased_descriptions,  \* SICRephraseClient.rephrased_descriptions
    req,                     \* the ClassificationRequest being handled
    pc,                      \* where the handler is suspended
    prompt_version,          \* classify_text's local prompt_version
    short_list,              \* the strategy's local short_list
    llm_response,            \* single_prompt_response / unambiguous_response
    oq_response,             \* open_question_response
    results,                 \* classify_text's local results
    caught,                  \* the exception `e` caught at classify_text's except
    outcome,                 \* what the caller of classify_text receives
    calls,                   \* outbound calls and rephrase lookups, in order
    soc_search_result,       \* what the SOC shortlist search returned (discarded)
    log,                     \* _classify_soc's info-level log lines
    soc_pc,                  \* where sa_rag_soc_code is
    soc_args,                \* the arguments of sa_rag_soc_code
    chain_calls,             \* the call_dicts LLMChain.invoke was given, in order
    soc_response,            \* sa_rag_soc_code's local response (raw LLM output)
    soc_returned,            \* what sa_rag_soc_code returned or raised
    lookup_code,             \* the sic_code get_rephrased_description was given
    lookup_result,           \* what get_rephrased_description returned
    has_code,                \* the sic_code has_rephrased_description was given
    has_result,              \* what has_rephrased_description returned
    response_before,         \* the caller's response_data before the call
    response_data,           \* the caller's response_data after the call
    processed_response,      \* what process_classification_response returned
    ar_pc,                   \* where the building of result.candidates is
    classifier_list,         \* the strategy and the classifier's candidate list
    ar_candidates,           \* the `candidates` _apply_rephrasing was given
    rephrased_candidates,    \* _apply_rephrasing's local rephrased_candidates
    result_candidates,       \* result.candidates
    lookup_raised,           \* a lookup raised inside _apply_rephrasing
    survey_results,          \* the Firestore collection survey_results
    list_query,              \* the arguments of list_survey_results
    list_response,           \* what list_survey_results returned
    running,                 \* the request whose handler holds the event loop
    waiting,                 \* the locals of the suspended handler
    loaded_descriptions      \* the rephrase table as loaded at startup

\* classify_text and the strategies it runs.
handler_vars ==
    <<settings_default, rephrased_descriptions, req, pc, prompt_version,
      short_list, llm_response, oq_response, results, caught, outcome, calls,
      soc_search_result, log>>

\* SOCLLMService.sa_rag_soc_code.
service_vars == <<soc_pc, soc_args, chain_calls, soc_response, soc_returned>>

\* A call of SICRephraseClient.get_rephrased_description.
lookup_vars ==
    <<lookup_code, lookup_result, has_code, has_result, response_before,
      response_data, processed_response>>

\* The building of result.candidates by a SIC strategy.
rephrase_vars ==
    <<ar_pc, classifier_list, ar_candidates, rephrased_candidates,
      result_candidates, lookup_raised>>

\* list_survey_results and the collection it reads.
store_vars == <<survey_results, list_query, list_response>>

\* Two requests on one event loop.
concurrent_vars == <<running, waiting, loaded_descriptions>>

rest_vars == <<rephrase_vars, store_vars, concurrent_vars>>

vars == <<handler_vars, service_vars, lookup_vars, rest_vars>>

-----------------------------------------------------------------------------
(* Python values *)

NoneV == <<>>
Some(x) == <<x>>
IsNone(o) == Len(o) = 0
IsSome(o) == Len(o) = 1
Val(o) == o[1]

\* Longest candidate list an LLM reply carries in this model.
MaxCands == 2

SeqsUpTo(S, n) == UNION {[1..k -> S] : k \in 0..n}

\* str.strip(): leading and trailing whitespace removed.
RECURSIVE LStrip(_)
LStrip(s) == IF s # <<>> /\ Head(s) = " " THEN LStrip(Tail(s)) ELSE s

RECURSIVE RStrip(_)
RStrip(s) ==
    IF s # <<>> /\ s[Len(s)] = " " THEN RStrip(SubSeq(s, 1, Len(s) - 1)) ELSE s

Strip(s) == RStrip(LStrip(s))

-----------------------------------------------------------------------------
(* api/config.py *)

PROMPT_VERSION_V1V2 == "v1v2"
PROMPT_VERSION_V3 == "v3"
DEFAULT_PROMPT_VERSION == PROMPT_VERSION_V1V2
VALID_PROMPT_VERSIONS == {PROMPT_VERSION_V1V2, PROMPT_VERSION_V3}

\* Values of the DEFAULT_PROMPT_VERSION environment setting: unset or empty
\* (falsy), a valid version, a version the endpoint does not support.
SettingsDefaults == {"", "v3", "v9"}

-----------------------------------------------------------------------------
(* Exceptions *)

StatusStr(n) ==
    CASE n = 400 -> "400" [] n = 422 -> "422" [] n = 500 -> "500"
      [] n = 503 -> "503" [] OTHER -> "0"

\* fastapi.HTTPException(status_code, detail) with a plain string detail.
HTTPExc(status, detail) ==
    [http |-> TRUE, status |-> status, structured |-> FALSE, detail |-> detail]

\* HTTPException(422, detail={"error": {type, message, details}}).
ClassificationError(details, cause) ==
    [http |-> TRUE, status |-> 422, structured |-> TRUE,
     detail |-> <<"classification_error",
                  "The LLM could not generate a valid classification",
                  details>> \o cause]

\* Any other exception, with its message.
Exc(msg) == [http |-> FALSE, status |-> 0, structured |-> FALSE, detail |-> <<msg>>]

\* str(e): "<status>: <detail>" for an HTTPException, the message otherwise.
StrExc(e) == IF e.http THEN <<StatusStr(e.status)>> \o e.detail ELSE e.detail

ErrMsgs == {"timeout", "bad json"}

-----------------------------------------------------------------------------
(* The request: api/models/classify.py ClassificationRequest, as read by    *)
(* classify_text.                                                           *)

LLMModels == {"chat-gpt", "gemini"}
ClassificationTypes == {"sic", "soc", "sic_soc"}
TextValues == {<<>>, <<" ">>, <<" ", "a">>}
PromptVersionValues == {NoneV, Some("v1v2"), Some("v3"), Some("v4")}

\* A per-domain options block: absent, or an object with a boolean `rephrased`.
DomainOptions == {NoneV, Some([rephrased |-> TRUE]), Some([rephrased |-> FALSE])}
OptionsValues == {NoneV} \cup {Some([sic |-> a, soc |-> b]) : a, b \in DomainOptions}

Requests ==
    [llm : LLMModels, type : ClassificationTypes, job_title : TextValues,
     job_description : TextValues, prompt_version : PromptVersionValues,
     options : OptionsValues]

WantsSic(r) == r.type \in {"sic", "sic_soc"}

\* Mutant: the SOC path runs for type soc only.
WantsSoc_SocOnly(r) == r.type = "soc"

WantsSoc(r) == r.type \in {"soc", "sic_soc"}

-----------------------------------------------------------------------------
(* Replies of the collaborators *)

Code4 == <<"1", "2", "3", "4">>
Code5 == <<"0", "1", "2", "3", "4">>
Code2 == <<"9", "9">>

\* Optional[str] code fields of an LLM reply: None, empty, a code.
OptCodes == {NoneV, Some(<<>>), Some(Code4)}
OptTexts == {NoneV, Some("llm text")}
OptFollowups == {NoneV, Some("llm question")}

\* The shortlist search returns a list of {code, title, distance} entries; an
\* entry lacking one of the keys makes the projection raise KeyError.
ShortlistEntry == [code |-> Code4, title |-> "title", distance |-> 5]
SearchResults == {<<>>, <<ShortlistEntry>>, <<[code |-> Code4]>>}
WellFormed(entry) == {"code", "title", "distance"} \subseteq DOMAIN entry

\* What the SOC shortlist search can return.
SocSearchResults == {<<>>, <<ShortlistEntry>>}

\* Candidates of the two-step reply (alt_candidates).
AltCandidates ==
    {[class_code |-> Code4, class_descriptive |-> "llm 1234", likelihood |-> 90],
     [class_code |-> Code2, class_descriptive |-> "llm 99", likelihood |-> 10]}

UnambiguousReplies ==
    [codable : BOOLEAN, class_code : OptCodes, class_descriptive : OptTexts,
     alt_candidates : {NoneV} \cup {Some(l) : l \in SeqsUpTo(AltCandidates, MaxCands)},
     reasoning : {"llm reasoning"}]

OpenQuestionReplies == [followup : OptFollowups]

\* Candidates of the single-prompt reply (sic_candidates).
SicCandidates ==
    {[sic_code |-> Code4, sic_descriptive |-> "llm 1234", likelihood |-> 90],
     [sic_code |-> Code2, sic_descriptive |-> "llm 99", likelihood |-> 10]}

SinglePromptReplies ==
    [codable : BOOLEAN, classified : BOOLEAN, sic_code : {NoneV, Some(Code4)},
     sic_descriptive : OptTexts, followup : OptFollowups,
     sic_candidates : {NoneV} \cup {Some(l) : l \in SeqsUpTo(SicCandidates, MaxCands)},
     reasoning : {"llm reasoning"}]

\* Python truthiness of an Optional[str].
Truthy(o) == IsSome(o) /\ Val(o) # <<>>

-----------------------------------------------------------------------------
(* api/services/sic_rephrase_client.py *)

FOUR_DIGIT_SIC_CODE == 4

\* Tables _load_rephrase_data can produce: keys and values stripped, non-empty.
RephraseTables ==
    {(Code5 :> "rephrased 01234"),
     (Code4 :> "rephrased 1234") @@ (Code5 :> "rephrased 01234")}

\* Mutant: a code of any length is padded.
get_rephrased_description_PadAll(table, sic_code) ==
    LET code == Strip(sic_code)
        padded == <<"0">> \o code
    IN  IF code \in DOMAIN table THEN Some(table[code])
        ELSE IF padded \in DOMAIN table THEN Some(table[padded])
        ELSE NoneV

get_rephrased_description(table, sic_code) ==
    LET code == Strip(sic_code)
        padded == <<"0">> \o code
    IN  IF code \in DOMAIN table THEN Some(table[code])
        ELSE IF Len(code) = FOUR_DIGIT_SIC_CODE /\ padded \in DOMAIN table
             THEN Some(table[padded])
        ELSE NoneV

-----------------------------------------------------------------------------
(* api/routes/v1/classify.py: the pure parts *)

\* Mutant: a supplied version is used without the membership test.
validate_prompt_version_Unchecked(pv, configured) ==
    IF IsNone(pv)
    THEN [ok |-> TRUE,
          value |-> IF configured # "" THEN configured ELSE DEFAULT_PROMPT_VERSION]
    ELSE [ok |-> TRUE, value |-> Val(pv)]

\* validate_prompt_version: the version to use, or the 400 it raises.
validate_prompt_version(pv, configured) ==
    IF IsNone(pv)
    THEN [ok |-> TRUE,
          value |-> IF configured # "" THEN configured ELSE DEFAULT_PROMPT_VERSION]
    ELSE IF Val(pv) \notin VALID_PROMPT_VERSIONS
    THEN [ok |-> FALSE, exc |-> HTTPExc(400, <<"Invalid prompt_version: ", Val(pv)>>)]
    ELSE [ok |-> TRUE, value |-> Val(pv)]

\* Mutant: the emptiness test without strip().
EmptyInput_NoStrip(r) == r.job_title = <<>> \/ r.job_description = <<>>

\* classify_text's emptiness test: `not job_title.strip() or not job_description.strip()`.
EmptyInput(r) == Strip(r.job_title) = <<>> \/ Strip(r.job_description) = <<>>

EmptyInputError == HTTPExc(400, <<"Job title and description cannot be empty">>)

\* The rephrasing decision of _apply_rephrasing (SIC).
SicRephrasingEnabled(r) ==
    IF IsSome(r.options) /\ IsSome(Val(r.options).sic)
    THEN Val(Val(r.options).sic).rephrased
    ELSE TRUE

\* Mutant: without a soc sub-block the SOC decision is false.
SocRephrasingEnabled_DefaultOff(r) ==
    IF IsSome(r.options) /\ IsSome(Val(r.options).soc)
    THEN Val(Val(r.options).soc).rephrased
    ELSE FALSE

\* The rephrasing decision of _classify_soc (SOC).
SocRephrasingEnabled(r) ==
    IF IsSome(r.options) /\ IsSome(Val(r.options).soc)
    THEN Val(Val(r.options).soc).rephrased
    ELSE TRUE

\* What _classify_soc logs when the decision is true.
SOC_REPHRASING_NOTICE == "SOC rephrasing requested but not yet implemented"

GenericCandidate(code, descriptive, likelihood) ==
    [code |-> code, descriptive |-> descriptive, likelihood |-> likelihood]

\* Mutant: the table's descriptions are applied whatever the options say.
apply_rephrasing_IgnoreFlag(candidates, table, r) ==
    [i \in 1..Len(candidates) |->
        LET rephrased_text == get_rephrased_description(table, candidates[i].code)
        IN  IF IsSome(rephrased_text)
            THEN GenericCandidate(candidates[i].code, Val(rephrased_text),
                                  candidates[i].likelihood)
            ELSE candidates[i]]

\* _apply_rephrasing: the candidates with the table's descriptions, when enabled.
apply_rephrasing(candidates, table, r) ==
    IF ~SicRephrasingEnabled(r) THEN candidates
    ELSE [i \in 1..Len(candidates) |->
            LET rephrased_text == get_rephrased_description(table, candidates[i].code)
            IN  IF IsSome(rephrased_text)
                THEN GenericCandidate(candidates[i].code, Val(rephrased_text),
                                      candidates[i].likelihood)
                ELSE candidates[i]]

LookupCall(code) == [op |-> "rephrase_lookup", arg |-> <<code>>]

\* The rephrase lookups _apply_rephrasing makes, in order.
rephrase_lookups(candidates, r) ==
    IF ~SicRephrasingEnabled(r) THEN <<>>
    ELSE [i \in 1..Len(candidates) |-> LookupCall(candidates[i].code)]

\* `if context.rephrase_client and candidates:` then _apply_rephrasing.
Rephrased(candidates, table, r) ==
    IF candidates # <<>> THEN apply_rephrasing(candidates, table, r) ELSE candidates

RephraseCalls(candidates, r) ==
    IF candidates # <<>> THEN rephrase_lookups(candidates, r) ELSE <<>>

\* _build_single_prompt_result, before rephrasing.
SinglePromptClassified(resp) == resp.codable \/ resp.classified

SinglePromptCandidates(resp) ==
    LET sic_candidates ==
            IF IsNone(resp.sic_candidates) THEN <<>> ELSE Val(resp.sic_candidates)
    IN  [i \in 1..Len(sic_candidates) |->
            GenericCandidate(sic_candidates[i].sic_code,
                             sic_candidates[i].sic_descriptive,
                             sic_candidates[i].likelihood)]

build_single_prompt_result(r, table, resp) ==
    LET is_classified == SinglePromptClassified(resp)
    IN  [type |-> "sic",
         classified |-> is_classified,
         followup |-> resp.followup,
         code |-> IF is_classified THEN resp.sic_code ELSE NoneV,
         description |-> IF is_classified THEN resp.sic_descriptive ELSE NoneV,
         candidates |-> Rephrased(SinglePromptCandidates(resp), table, r),
         reasoning |-> resp.reasoning]

\* Mutant: the codable flag alone decides, the code is not looked at.
UnambiguousMatch_CodableOnly(resp) == resp.codable

\* _classify_sic_two_step: `if unambiguous_response.codable and
\* unambiguous_response.class_code`.
UnambiguousMatch(resp) == resp.codable /\ Truthy(resp.class_code)

\* The candidates mapped from alt_candidates (a list).
MapAltCandidates(alt) ==
    [i \in 1..Len(alt) |->
        GenericCandidate(alt[i].class_code, alt[i].class_descriptive,
                         alt[i].likelihood)]

\* Mutant: only the top candidate is passed to the open question.
OpenQuestionArg_TopOnly(resp) ==
    IF IsNone(resp.alt_candidates) THEN NoneV
    ELSE IF Len(Val(resp.alt_candidates)) = 0 THEN Some(<<>>)
    ELSE Some(<<Val(resp.alt_candidates)[1]>>)

\* The argument formulate_open_question gets as llm_output.
OpenQuestionArg(resp) == resp.alt_candidates

\* Mutant: the main description is rephrased like a candidate's.
two_step_classified_result_RephrasedMain(r, table, resp) ==
    [type |-> "sic",
     classified |-> TRUE,
     followup |-> NoneV,
     code |-> resp.class_code,
     description |->
        LET rephrased_text == get_rephrased_description(table, Val(resp.class_code))
        IN  IF SicRephrasingEnabled(r) /\ IsSome(rephrased_text)
            THEN rephrased_text ELSE resp.class_descriptive,
     candidates |-> Rephrased(MapAltCandidates(Val(resp.alt_candidates)), table, r),
     reasoning |-> resp.reasoning]

\* The two-step result when the unambiguous step found a code.
two_step_classified_result(r, table, resp) ==
    [type |-> "sic",
     classified |-> TRUE,
     followup |-> NoneV,
     code |-> resp.class_code,
     description |-> resp.class_descriptive,
     candidates |-> Rephrased(MapAltCandidates(Val(resp.alt_candidates)), table, r),
     reasoning |-> resp.reasoning]

\* The two-step result after the open question.
two_step_followup_result(r, table, resp, oq) ==
    [type |-> "sic",
     classified |-> FALSE,
     followup |-> oq.followup,
     code |-> NoneV,
     description |-> NoneV,
     candidates |-> Rephrased(MapAltCandidates(Val(resp.alt_candidates)), table, r),
     reasoning |-> resp.reasoning]

\* _classify_soc's placeholder result.
SOC_PLACEHOLDER_CODE == <<"9", "1", "1", "1">>

soc_result ==
    [type |-> "soc",
     classified |-> TRUE,
     followup |-> NoneV,
     code |-> Some(SOC_PLACEHOLDER_CODE),
     description |-> Some("Farm workers"),
     candidates |-> <<GenericCandidate(SOC_PLACEHOLDER_CODE, "Farm workers", 100)>>,
     reasoning |-> "Placeholder SOC classification reasoning"]

\* Mutant: the sub-blocks are copied without looking at the request type.
applied_options_AllDomains(r) ==
    [sic |-> IF IsSome(Val(r.options).sic)
             THEN Some([rephrased |-> Val(Val(r.options).sic).rephrased])
             ELSE NoneV,
     soc |-> IF IsSome(Val(r.options).soc)
             THEN Some([rephrased |-> Val(Val(r.options).soc).rephrased])
             ELSE NoneV]

\* Mutant: each domain's flag is reported negated.
applied_options_Negated(r) ==
    [sic |-> IF WantsSic(r) /\ IsSome(Val(r.options).sic)
             THEN Some([rephrased |-> ~Val(Val(r.options).sic).rephrased])
             ELSE NoneV,
     soc |-> IF WantsSoc(r) /\ IsSome(Val(r.options).soc)
             THEN Some([rephrased |-> ~Val(Val(r.options).soc).rephrased])
             ELSE NoneV]

\* classify_text: AppliedOptions, filled for the domains classified.
applied_options(r) ==
    [sic |-> IF WantsSic(r) /\ IsSome(Val(r.options).sic)
             THEN Some([rephrased |-> Val(Val(r.options).sic).rephrased])
             ELSE NoneV,
     soc |-> IF WantsSoc(r) /\ IsSome(Val(r.options).soc)
             THEN Some([rephrased |-> Val(Val(r.options).soc).rephrased])
             ELSE NoneV]

\* classify_text: meta is built only when the request carries options.
build_meta(r) ==
    IF IsSome(r.options)
    THEN Some([llm |-> r.llm, applied_options |-> applied_options(r)])
    ELSE NoneV

\* classify_text: the response object, with or without meta.
build_response(r, res) ==
    LET meta == build_meta(r)
    IN  IF IsNone(meta)
        THEN [variant |-> "GenericClassificationResponseWithoutMeta",
              requested_type |-> r.type, results |-> res]
        ELSE [variant |-> "GenericClassificationResponse",
              requested_type |-> r.type, results |-> res, meta |-> meta]

\* Mutant: every exception leaves the strategy as it is.
StrategyExcept_PassAll(e) == e

\* The except clauses of _classify_sic_single_prompt and _classify_sic_two_step:
\* an HTTPException passes, anything else becomes a 422.
StrategyExcept(e) ==
    IF e.http THEN e
    ELSE ClassificationError("Response was empty or invalid JSON: ", StrExc(e))

\* The except clause of classify_text.
ClassifyTextExcept(e) ==
    HTTPExc(500, <<"Error during classification: ">> \o StrExc(e))

ErrorOutcome(e) ==
    [kind |-> "error", status |-> e.status, structured |-> e.structured,
     detail |-> e.detail]

ResponseOutcome(resp) == [kind |-> "response", response |-> resp]

-----------------------------------------------------------------------------
(* api/services/base_vector_store_client.py: how search() fails *)

SearchUnavailable(service, msg) == HTTPExc(503, <<"Failed to search ", service, msg>>)
SearchUnexpected(service, msg) ==
    HTTPExc(500, <<"Unexpected error searching ", service, msg>>)
SearchErrors(service) ==
    {SearchUnavailable(service, m) : m \in ErrMsgs}
        \cup {SearchUnexpected(service, m) : m \in ErrMsgs}

-----------------------------------------------------------------------------
(* The handler *)

\* An entry of the call log.  arg is kept for the calls whose argument is
\* computed from a reply (the open question's llm_output, a lookup's code); the
\* other calls get the request's text and the local short_list.
Call(op, arg) == [op |-> op, arg |-> arg]
SicSearchCall == Call("sic_search", <<>>)
SocSearchCall == Call("soc_search", <<>>)

\* The control part of the next state.
Ctl(p, c, e, o, res) == [pc |-> p, calls |-> c, caught |-> e, outcome |-> o, results |-> res]

\* An exception raised before classify_text's try block reaches the caller.
Rejected(e) == Ctl("done", calls, caught, Some(ErrorOutcome(e)), results)

\* Mutant: the except clause ends the request without raising anything.
Raised_NoOutcome(e) == Ctl("done", calls, Some(e), outcome, results)

\* An exception raised inside the try block is caught by its except clause.
Raised(e) ==
    Ctl("done", calls, Some(e), Some(ErrorOutcome(ClassifyTextExcept(e))), results)

\* The handler suspends on an outbound call.
Awaiting(p, call, c, res) == Ctl(p, Append(c, call), caught, outcome, res)

\* The response is returned.
Returned(c, res) ==
    Ctl("done", c, caught, Some(ResponseOutcome(build_response(req, res))), res)

\* _classify_sic: the strategy for a prompt version.
classify_sic(pv) ==
    IF pv = PROMPT_VERSION_V1V2 THEN Awaiting("sp_search", SicSearchCall, calls, results)
    ELSE IF pv = PROMPT_VERSION_V3
    THEN Awaiting("ts_search", SicSearchCall, calls, results)
    ELSE Raised(HTTPExc(500, <<"Unsupported prompt version: ", pv>>))

\* Mutant: the SOC search is logged ahead of the SIC path's calls.
AfterSic_SocFirst(sic_result, c) ==
    IF WantsSoc(req)
    THEN Ctl("soc_search", <<SocSearchCall>> \o c, caught, outcome,
             Append(results, sic_result))
    ELSE Returned(c, Append(results, sic_result))

\* classify_text after _classify_sic returned: the SOC path or the response.
AfterSic(sic_result, c) ==
    IF WantsSoc(req)
    THEN Awaiting("soc_search", SocSearchCall, c, Append(results, sic_result))
    ELSE Returned(c, Append(results, sic_result))

Apply(ctl) ==
    /\ pc' = ctl.pc
    /\ calls' = ctl.calls
    /\ caught' = ctl.caught
    /\ outcome' = ctl.outcome
    /\ results' = ctl.results

\* A step of a SIC strategy: its local short_list lives until it returns or raises.
ApplyStrategy(ctl) ==
    /\ Apply(ctl)
    /\ short_list' = IF ctl.pc = "ts_oq" THEN short_list ELSE NoneV

\* sa_rag_soc_code is not running.
ServiceIdle ==
    /\ soc_pc = "idle"
    /\ soc_args = NoneV
    /\ chain_calls = <<>>
    /\ soc_response = NoneV
    /\ soc_returned = NoneV

\* No method of the rephrase client has been called on its own.
LookupIdle ==
    /\ lookup_code = NoneV
    /\ lookup_result = NoneV
    /\ has_code = NoneV
    /\ has_result = NoneV
    /\ response_before = NoneV
    /\ response_data = NoneV
    /\ processed_response = NoneV

\* No result.candidates is being built on its own.
RephraseIdle ==
    /\ ar_pc = "idle"
    /\ classifier_list = NoneV
    /\ ar_candidates = NoneV
    /\ rephrased_candidates = <<>>
    /\ result_candidates = NoneV
    /\ lookup_raised = FALSE

\* The results collection is not in use.
StoreIdle ==
    /\ survey_results = <<>>
    /\ list_query = NoneV
    /\ list_response = NoneV

\* One request only.
ConcurrentIdle ==
    /\ running = 0
    /\ waiting = NoneV
    /\ loaded_descriptions = NoneV

RestIdle == RephraseIdle /\ StoreIdle /\ ConcurrentIdle

Init ==
    /\ ServiceIdle
    /\ LookupIdle
    /\ RestIdle
    /\ soc_search_result = NoneV
    /\ log = <<>>
    /\ settings_default \in SettingsDefaults
    /\ rephrased_descriptions \in RephraseTables
    /\ req \in Requests
    /\ pc = "start"
    /\ prompt_version = NoneV
    /\ short_list = NoneV
    /\ llm_response = NoneV
    /\ oq_response = NoneV
    /\ results = <<>>
    /\ caught = NoneV
    /\ outcome = NoneV
    /\ calls = <<>>

\* classify_text up to its first await: validation and dispatch.
Start ==
    /\ pc = "start"
    /\ LET v == validate_prompt_version(req.prompt_version, settings_default)
       IN  /\ prompt_version' = IF v.ok THEN Some(v.value) ELSE NoneV
           /\ Apply(IF ~v.ok THEN Rejected(v.exc)
                    ELSE IF EmptyInput(req) THEN Rejected(EmptyInputError)
                    ELSE IF WantsSic(req) THEN classify_sic(v.value)
                    ELSE Awaiting("soc_search", SocSearchCall, calls, results))
    /\ UNCHANGED <<service_vars, lookup_vars, rest_vars, soc_search_result, log>>
    /\ UNCHANGED <<settings_default, rephrased_descriptions, req, short_list,
                   llm_response, oq_response>>

\* The SIC shortlist search returns; the strategy projects it and calls the LLM.
SicSearchReturn ==
    /\ pc \in {"sp_search", "ts_search"}
    /\ \E search_results \in SearchResults :
        IF \A i \in 1..Len(search_results) : WellFormed(search_results[i])
        THEN /\ short_list' = Some(search_results)
             /\ Apply(Awaiting(IF pc = "sp_search" THEN "sp_llm" ELSE "ts_unamb",
                               Call(IF pc = "sp_search" THEN "sa_rag_sic_code"
                                    ELSE "unambiguous_sic_code", <<>>),
                               calls, results))
        ELSE /\ short_list' = short_list
             /\ Apply(Raised(StrategyExcept(Exc("KeyError"))))
    /\ UNCHANGED <<service_vars, lookup_vars, rest_vars, soc_search_result, log>>
    /\ UNCHANGED <<settings_default, rephrased_descriptions, req, prompt_version,
                   llm_response, oq_response>>

\* The SIC shortlist search raises.
SicSearchRaise ==
    /\ pc \in {"sp_search", "ts_search"}
    /\ \E e \in SearchErrors("SIC vector store") : ApplyStrategy(Raised(StrategyExcept(e)))
    /\ UNCHANGED <<service_vars, lookup_vars, rest_vars, soc_search_result, log>>
    /\ UNCHANGED <<settings_default, rephrased_descriptions, req, prompt_version,
                   llm_response, oq_response>>

\* sa_rag_sic_code returns: the single-prompt result is built.
SinglePromptReturn ==
    /\ pc = "sp_llm"
    /\ \E resp \in SinglePromptReplies :
        /\ llm_response' = Some(resp)
        /\ ApplyStrategy(AfterSic(build_single_prompt_result(req, rephrased_descriptions, resp),
                          calls \o RephraseCalls(SinglePromptCandidates(resp), req)))
    /\ UNCHANGED <<service_vars, lookup_vars, rest_vars, soc_search_result, log>>
    /\ UNCHANGED <<settings_default, rephrased_descriptions, req, prompt_version,
                   oq_response>>

\* Mutant: a failed single-shot call is made again.
SinglePromptRaise_Retry ==
    /\ pc = "sp_llm"
    /\ Apply(Awaiting("sp_llm", Call("sa_rag_sic_code", <<>>), calls, results))
    /\ UNCHANGED <<service_vars, lookup_vars, rest_vars, soc_search_result, log>>
    /\ UNCHANGED <<settings_default, rephrased_descriptions, req, prompt_version,
                   short_list, llm_response, oq_response>>

\* sa_rag_sic_code raises.
SinglePromptRaise ==
    /\ pc = "sp_llm"
    /\ \E m \in ErrMsgs :
        ApplyStrategy(Raised(StrategyExcept(
            ClassificationError("Single-prompt classification failed: ", <<m>>))))
    /\ UNCHANGED <<service_vars, lookup_vars, rest_vars, soc_search_result, log>>
    /\ UNCHANGED <<settings_default, rephrased_descriptions, req, prompt_version,
                   llm_response, oq_response>>

\* unambiguous_sic_code returns: a classified result, or the open question is asked.
UnambiguousReturn ==
    /\ pc = "ts_unamb"
    /\ \E resp \in UnambiguousReplies :
        /\ llm_response' = Some(resp)
        /\ ApplyStrategy(IF UnambiguousMatch(resp)
                 THEN IF IsNone(resp.alt_candidates)
                      THEN Raised(StrategyExcept(Exc("TypeError")))
                      ELSE AfterSic(
                             two_step_classified_result(req, rephrased_descriptions, resp),
                             calls \o RephraseCalls(
                                        MapAltCandidates(Val(resp.alt_candidates)), req))
                 ELSE Awaiting("ts_oq",
                               Call("formulate_open_question", OpenQuestionArg(resp)),
                               calls, results))
    /\ UNCHANGED <<service_vars, lookup_vars, rest_vars, soc_search_result, log>>
    /\ UNCHANGED <<settings_default, rephrased_descriptions, req, prompt_version,
                   oq_response>>

\* unambiguous_sic_code raises.
UnambiguousRaise ==
    /\ pc = "ts_unamb"
    /\ \E m \in ErrMsgs :
        ApplyStrategy(Raised(StrategyExcept(
            ClassificationError("Unambiguous classification failed: ", <<m>>))))
    /\ UNCHANGED <<service_vars, lookup_vars, rest_vars, soc_search_result, log>>
    /\ UNCHANGED <<settings_default, rephrased_descriptions, req, prompt_version,
                   llm_response, oq_response>>

\* formulate_open_question returns: the unclassified result is built.
OpenQuestionReturn ==
    /\ pc = "ts_oq"
    /\ \E oq \in OpenQuestionReplies :
        /\ oq_response' = Some(oq)
        /\ LET resp == Val(llm_response)
           IN  ApplyStrategy(IF IsNone(resp.alt_candidates)
                     THEN Raised(StrategyExcept(Exc("TypeError")))
                     ELSE AfterSic(
                            two_step_followup_result(req, rephrased_descriptions, resp, oq),
                            calls \o RephraseCalls(
                                       MapAltCandidates(Val(resp.alt_candidates)), req)))
    /\ UNCHANGED <<service_vars, lookup_vars, rest_vars, soc_search_result, log>>
    /\ UNCHANGED <<settings_default, rephrased_descriptions, req, prompt_version,
                   llm_response>>

\* Mutant: the open question's failure is reported as the first step's.
OpenQuestionRaise_WrongStep ==
    /\ pc = "ts_oq"
    /\ \E m \in ErrMsgs :
        ApplyStrategy(Raised(StrategyExcept(
            ClassificationError("Unambiguous classification failed: ", <<m>>))))
    /\ UNCHANGED <<service_vars, lookup_vars, rest_vars, soc_search_result, log>>
    /\ UNCHANGED <<settings_default, rephrased_descriptions, req, prompt_version,
                   llm_response, oq_response>>

\* formulate_open_question raises.
OpenQuestionRaise ==
    /\ pc = "ts_oq"
    /\ \E m \in ErrMsgs :
        ApplyStrategy(Raised(StrategyExcept(
            ClassificationError("Open question formulation failed: ", <<m>>))))
    /\ UNCHANGED <<service_vars, lookup_vars, rest_vars, soc_search_result, log>>
    /\ UNCHANGED <<settings_default, rephrased_descriptions, req, prompt_version,
                   llm_response, oq_response>>

\* The SOC shortlist search returns: _classify_soc builds its result.
SocSearchReturn ==
    /\ pc = "soc_search"
    /\ \E search_results \in SocSearchResults :
        soc_search_result' = Some(search_results)
    /\ log' = IF SocRephrasingEnabled(req)
              THEN Append(log, SOC_REPHRASING_NOTICE) ELSE log
    /\ Apply(Returned(calls, Append(results, soc_result)))
    /\ UNCHANGED <<service_vars, lookup_vars, rest_vars>>
    /\ UNCHANGED <<settings_default, rephrased_descriptions, req, prompt_version,
                   short_list, llm_response, oq_response>>

\* Mutant: a failing SOC search is swallowed and what there is gets returned.
SocSearchRaise_Partial ==
    /\ pc = "soc_search"
    /\ \E e \in SearchErrors("SOC vector store") :
        Apply(Ctl("done", calls, Some(e),
                  Some(ResponseOutcome(build_response(req, results))), results))
    /\ UNCHANGED <<service_vars, lookup_vars, rest_vars, soc_search_result, log>>
    /\ UNCHANGED <<settings_default, rephrased_descriptions, req, prompt_version,
                   short_list, llm_response, oq_response>>

\* The SOC shortlist search raises: nothing in _classify_soc catches it.
SocSearchRaise ==
    /\ pc = "soc_search"
    /\ \E e \in SearchErrors("SOC vector store") : Apply(Raised(e))
    /\ UNCHANGED <<service_vars, lookup_vars, rest_vars, soc_search_result, log>>
    /\ UNCHANGED <<settings_default, rephrased_descriptions, req, prompt_version,
                   short_list, llm_response, oq_response>>

Next ==
    \/ Start
    \/ SicSearchReturn
    \/ SicSearchRaise
    \/ SinglePromptReturn
    \/ SinglePromptRaise
    \/ UnambiguousReturn
    \/ UnambiguousRaise
    \/ OpenQuestionReturn
    \/ OpenQuestionRaise
    \/ SocSearchReturn
    \/ SocSearchRaise

Spec == Init /\ [][Next]_vars

\* The event loop resumes a handler whose awaited call has returned or
\* raised, and runs a handler that was started.
\* One model, one text that is blank and one that is not, and no SOC options
\* block: how a request ends depends on the texts only through EmptyInput,
\* and on the options not at all.
FairRequests ==
    {r \in Requests : /\ r.llm = "gemini"
                      /\ r.job_title \in {<<" ">>, <<" ", "a">>}
                      /\ r.job_description = <<" ", "a">>
                      /\ IsSome(r.options) => IsNone(Val(r.options).soc)}

InitFair ==
    /\ Init
    /\ req \in FairRequests
    /\ settings_default \in {"", "v9"}
    /\ Code4 \in DOMAIN rephrased_descriptions

SpecFair == InitFair /\ [][Next]_vars /\ WF_vars(Next)

-----------------------------------------------------------------------------
(* api/services/soc_llm_service.py: SOCLLMService.sa_rag_soc_code *)

DEFAULT_CANDIDATES_LIMIT == 5

\* No request is being handled by classify_text.
HandlerIdle ==
    /\ req = NoneV
    /\ pc = "idle"
    /\ prompt_version = NoneV
    /\ short_list = NoneV
    /\ llm_response = NoneV
    /\ oq_response = NoneV
    /\ results = <<>>
    /\ caught = NoneV
    /\ outcome = NoneV
    /\ calls = <<>>
    /\ soc_search_result = NoneV
    /\ log = <<>>

\* dict.get(key, default)
Get(d, key, default) == IF key \in DOMAIN d THEN d[key] ELSE default

Max(a, b) == IF a >= b THEN a ELSE b
Min(a, b) == IF a <= b THEN a ELSE b

\* The shortlists sa_rag_soc_code can be given: entries may lack keys.
SocShortLists == SeqsUpTo({ShortlistEntry, [code |-> Code4]}, MaxCands)

SocArgs ==
    [job_title : TextValues, job_description : TextValues, short_list : SocShortLists]

\* _prompt_candidate_list: one line per entry of short_list[:candidates_limit]
\* (code, title, relevance = max(0, 1 - distance)); lists this short stay
\* under chars_limit.
prompt_candidate_list(list, candidates_limit) ==
    [i \in 1..Min(Len(list), candidates_limit) |->
        [code |-> Get(list[i], "code", <<>>),
         title |-> Get(list[i], "title", ""),
         similarity |-> Max(0, 100 - Get(list[i], "distance", 0))]]

Unknown == <<"U", "n", "k", "n", "o", "w", "n">>

\* prep_call_dict: blank texts become "Unknown".
prep_call_dict(job_title, job_description, soc_codes) ==
    [job_title |-> IF Strip(job_title) = <<>> THEN Unknown ELSE job_title,
     job_description |->
        IF Strip(job_description) = <<>> THEN Unknown ELSE job_description,
     soc_index |-> soc_codes]

\* SocClassificationResponse
SocClassificationResponse(classified, followup, soc_code, soc_description, soc_candidates, reasoning, prompt_used) ==
    [classified |-> classified, followup |-> followup, soc_code |-> soc_code,
     soc_description |-> soc_description, soc_candidates |-> soc_candidates,
     reasoning |-> reasoning, prompt_used |-> prompt_used]

\* The answer for an empty short_list.
EmptyShortlistAnswer ==
    SocClassificationResponse(
        FALSE,
        Some("Unable to find relevant SOC codes. Please provide more specific job information."),
        NoneV, NoneV, <<>>,
        <<"No relevant SOC codes found in vector store search.">>,
        NoneV)

\* The answer when chain.invoke raises.
ChainErrorAnswer(call_dict) ==
    SocClassificationResponse(
        FALSE, Some("Follow-up question not available due to error."),
        NoneV, NoneV, <<>>, <<"Error from LLMChain, exit early">>, Some(call_dict))

\* The answer when parser.parse raises.
ParseErrorAnswer(parse_error, text, call_dict) ==
    SocClassificationResponse(
        FALSE, Some("Follow-up question not available due to parsing error."),
        NoneV, NoneV, <<>>,
        <<"ERROR parse_error=", parse_error, "response=", text>>, Some(call_dict))

\* What chain.invoke can put in response["text"]: text that is not JSON, or
\* a JSON object with some of the schema's keys.
SocCandidateJson ==
    [soc_code |-> SOC_PLACEHOLDER_CODE, soc_descriptive |-> "soc text", likelihood |-> 80]

SocRawTexts ==
    {[text |-> "not json", json |-> NoneV],
     [text |-> "classified",
      json |-> Some([classified |-> TRUE, soc_code |-> Some(SOC_PLACEHOLDER_CODE),
                     soc_description |-> Some("soc text"),
                     soc_candidates |-> <<SocCandidateJson>>,
                     reasoning |-> <<"llm reasoning">>])],
     [text |-> "unclassified",
      json |-> Some([classified |-> FALSE, followup |-> Some("llm question"),
                     soc_candidates |-> <<SocCandidateJson>>,
                     reasoning |-> <<"llm reasoning">>])],
     [text |-> "no reasoning",
      json |-> Some([classified |-> TRUE, soc_code |-> Some(SOC_PLACEHOLDER_CODE),
                     soc_candidates |-> <<>>])],
     [text |-> "likelihood 1.5",
      json |-> Some([classified |-> FALSE,
                     soc_candidates |->
                        <<[soc_code |-> SOC_PLACEHOLDER_CODE,
                           soc_descriptive |-> "soc text", likelihood |-> 150]>>,
                     reasoning |-> <<"llm reasoning">>])]}

\* Mutant: the parser fills what is missing instead of failing.
parser_parse_Lenient(raw) ==
    IF IsNone(raw.json)
    THEN [ok |-> TRUE,
          value |-> SocClassificationResponse(TRUE, NoneV, NoneV, NoneV, <<>>,
                                              <<raw.text>>, NoneV)]
    ELSE LET o == Val(raw.json)
         IN  [ok |-> TRUE,
              value |-> SocClassificationResponse(
                            Get(o, "classified", TRUE), Get(o, "followup", NoneV),
                            Get(o, "soc_code", NoneV),
                            Get(o, "soc_description", NoneV),
                            Get(o, "soc_candidates", <<>>),
                            Get(o, "reasoning", <<>>), NoneV)]

\* PydanticOutputParser(SocClassificationResponse).parse: the text must be
\* JSON with the required keys and likelihoods within [0, 1].
parser_parse(raw) ==
    IF IsNone(raw.json)
    THEN [ok |-> FALSE, error |-> "Invalid json output"]
    ELSE LET o == Val(raw.json)
         IN  IF /\ {"classified", "soc_candidates", "reasoning"} \subseteq DOMAIN o
                /\ \A i \in DOMAIN o.soc_candidates :
                      /\ o.soc_candidates[i].likelihood >= 0
                      /\ o.soc_candidates[i].likelihood <= 100
             THEN [ok |-> TRUE,
                   value |-> SocClassificationResponse(
                                 o.classified, Get(o, "followup", NoneV),
                                 Get(o, "soc_code", NoneV),
                                 Get(o, "soc_description", NoneV),
                                 o.soc_candidates, o.reasoning, NoneV)]
             ELSE [ok |-> FALSE, error |-> "Failed to parse SocClassificationResponse"]

\* What sa_rag_soc_code returns: (validated_answer, short_list, call_dict).
SocReturn(validated_answer, list, call_dict) ==
    [kind |-> "return", validated_answer |-> validated_answer,
     short_list |-> list, call_dict |-> call_dict]

\* The call_dict chain.invoke is given.
SocCallDict(args) ==
    prep_call_dict(args.job_title, args.job_description,
                   prompt_candidate_list(args.short_list, DEFAULT_CANDIDATES_LIMIT))
        @@ [format_instructions |-> "format instructions"]

InitService ==
    /\ HandlerIdle
    /\ LookupIdle
    /\ RestIdle
    /\ settings_default = ""
    /\ rephrased_descriptions = <<>>
    /\ soc_pc = "start"
    /\ soc_args \in {Some(a) : a \in SocArgs}
    /\ chain_calls = <<>>
    /\ soc_response = NoneV
    /\ soc_returned = NoneV

\* sa_rag_soc_code up to chain.invoke: an empty short_list returns at once.
SocServiceStart ==
    /\ soc_pc = "start"
    /\ IF Val(soc_args).short_list = <<>>
       THEN /\ soc_returned' = Some(SocReturn(EmptyShortlistAnswer, <<>>, <<>>))
            /\ soc_pc' = "done"
            /\ UNCHANGED chain_calls
       ELSE /\ chain_calls' = Append(chain_calls, SocCallDict(Val(soc_args)))
            /\ soc_pc' = "invoke"
            /\ UNCHANGED soc_returned
    /\ UNCHANGED <<handler_vars, lookup_vars, rest_vars, soc_args, soc_response>>

\* chain.invoke raises.
ChainInvokeRaise ==
    /\ soc_pc = "invoke"
    /\ soc_returned' =
          Some(SocReturn(ChainErrorAnswer(SocCallDict(Val(soc_args))),
                         Val(soc_args).short_list, SocCallDict(Val(soc_args))))
    /\ soc_pc' = "done"
    /\ UNCHANGED <<handler_vars, lookup_vars, rest_vars, soc_args, chain_calls, soc_response>>

\* chain.invoke returns: the text is parsed, a parse failure is absorbed.
ChainInvokeReturn ==
    /\ soc_pc = "invoke"
    /\ \E raw \in SocRawTexts :
        LET parsed == parser_parse(raw)
            call_dict == SocCallDict(Val(soc_args))
        IN  /\ soc_response' = Some(raw)
            /\ soc_returned' =
                  Some(SocReturn(IF parsed.ok THEN parsed.value
                                 ELSE ParseErrorAnswer(parsed.error, raw.text, call_dict),
                                 Val(soc_args).short_list, call_dict))
    /\ soc_pc' = "done"
    /\ UNCHANGED <<handler_vars, lookup_vars, rest_vars, soc_args, chain_calls>>

NextService ==
    \/ SocServiceStart
    \/ ChainInvokeRaise
    \/ ChainInvokeReturn

SpecService == InitService /\ [][NextService]_vars

-----------------------------------------------------------------------------
(* api/services/sic_rephrase_client.py: get_rephrased_description on its own *)

Code3 == <<"2", "3", "4">>
Code0234 == <<"0">> \o Code3
Code001234 == <<"0">> \o Code5

\* Keys a loaded table can have: stripped, non-empty.
LookupKeys == {Code3, Code0234, Code4, Code5, Code001234}

Describe(k) ==
    CASE k = Code3 -> "rephrased 234"
      [] k = Code0234 -> "rephrased 0234"
      [] k = Code4 -> "rephrased 1234"
      [] k = Code5 -> "rephrased 01234"
      [] k = Code001234 -> "rephrased 001234"

\* The tables _load_rephrase_data can return over these keys.
LookupTables == {[k \in K |-> Describe(k)] : K \in SUBSET LookupKeys}

\* The codes looked up: with and without surrounding blanks, and blank ones.
LookupCodes ==
    {Code3, Code0234, Code4, Code5, <<" ">> \o Code4, Code4 \o <<" ">>,
     <<" ">> \o Code3 \o <<" ">>, <<>>, <<" ">>}

InitLookup ==
    /\ HandlerIdle
    /\ ServiceIdle
    /\ LookupIdle
    /\ RestIdle
    /\ settings_default = ""
    /\ rephrased_descriptions \in LookupTables

\* A caller looks a code up.
GetRephrasedDescription ==
    /\ \E code \in LookupCodes :
        /\ lookup_code' = Some(code)
        /\ lookup_result' = get_rephrased_description(rephrased_descriptions, code)
    /\ UNCHANGED <<has_code, has_result, response_before, response_data,
                   processed_response>>
    /\ UNCHANGED <<handler_vars, service_vars, rest_vars>>

\* has_rephrased_description: `str(sic_code).strip() in self.rephrased_descriptions`.
has_rephrased_description(table, sic_code) == Strip(sic_code) \in DOMAIN table

\* A caller asks whether a code has an entry.
HasRephrasedDescription ==
    /\ \E code \in LookupCodes :
        /\ has_code' = Some(code)
        /\ has_result' = Some(has_rephrased_description(rephrased_descriptions, code))
    /\ UNCHANGED <<lookup_code, lookup_result, response_before, response_data,
                   processed_response>>
    /\ UNCHANGED <<handler_vars, service_vars, rest_vars>>

\* The response dicts process_classification_response is given.
ResponseDatas ==
    [sic_code : {NoneV, Some(Code4)},
     sic_description : {Some("llm 1234")},
     sic_candidates : {NoneV} \cup {Some(l) : l \in SeqsUpTo(SicCandidates, MaxCands)}]

\* The loop over processed_response["sic_candidates"]: each dict of the list
\* is updated in place.
rephrase_in_place(table, sic_candidates) ==
    [i \in 1..Len(sic_candidates) |->
        LET candidate == sic_candidates[i]
            rephrased_desc == get_rephrased_description(table, candidate.sic_code)
        IN  IF candidate.sic_code # <<>> /\ IsSome(rephrased_desc)
            THEN [candidate EXCEPT !.sic_descriptive = Val(rephrased_desc)]
            ELSE candidate]

\* process_classification_response: response_data.copy() copies the top-level
\* dict only, so the list under "sic_candidates" and the dicts in it are the
\* caller's own objects.  `caller` is the caller's response_data after the
\* call and `returned` the dict returned.
process_classification_response(table, data) ==
    LET rephrased_desc ==
            IF Truthy(data.sic_code)
            THEN get_rephrased_description(table, Val(data.sic_code))
            ELSE NoneV
        shared ==
            IF IsSome(data.sic_candidates) /\ Val(data.sic_candidates) # <<>>
            THEN Some(rephrase_in_place(table, Val(data.sic_candidates)))
            ELSE data.sic_candidates
    IN  [caller |-> [data EXCEPT !.sic_candidates = shared],
         returned |-> [data EXCEPT
                        !.sic_description =
                            IF IsSome(rephrased_desc) THEN rephrased_desc ELSE @,
                        !.sic_candidates = shared]]

\* A caller has a response processed.
ProcessClassificationResponse ==
    /\ \E data \in ResponseDatas :
        LET r == process_classification_response(rephrased_descriptions, data)
        IN  /\ response_before' = Some(data)
            /\ response_data' = Some(r.caller)
            /\ processed_response' = Some(r.returned)
    /\ UNCHANGED <<lookup_code, lookup_result, has_code, has_result>>
    /\ UNCHANGED <<handler_vars, service_vars, rest_vars>>

NextLookup ==
    \/ GetRephrasedDescription
    \/ HasRephrasedDescription

\* Responses are processed against a loaded table.
NextProcess == ProcessClassificationResponse

SpecProcess == InitLookup /\ [][NextProcess]_vars

SpecLookup == InitLookup /\ [][NextLookup]_vars

-----------------------------------------------------------------------------
(* api/routes/v1/classify.py: how a SIC strategy builds result.candidates,   *)
(* one rephrase lookup at a time.  The rephrase client is the strategy's    *)
(* collaborator: a lookup returns what the table holds, or raises.          *)

\* The classifier's candidate list, as each strategy receives it.
ClassifierLists ==
    {[strategy |-> "single_prompt", list |-> l] :
        l \in SeqsUpTo(SicCandidates, MaxCands)}
    \cup {[strategy |-> "two_step", list |-> l] :
        l \in SeqsUpTo(AltCandidates, MaxCands)}

\* The list comprehension of the strategy.
map_candidates(cl) ==
    IF cl.strategy = "single_prompt"
    THEN SinglePromptCandidates([sic_candidates |-> Some(cl.list)])
    ELSE MapAltCandidates(cl.list)

\* Requests that differ in their options only.
RephraseRequests ==
    {r \in Requests : /\ r.llm = "gemini" /\ r.type = "sic"
                      /\ r.job_title = <<" ", "a">>
                      /\ r.job_description = <<" ", "a">>
                      /\ r.prompt_version = NoneV}

InitRephrase ==
    /\ ServiceIdle
    /\ LookupIdle
    /\ StoreIdle
    /\ ConcurrentIdle
    /\ settings_default = ""
    /\ rephrased_descriptions \in RephraseTables
    /\ req \in RephraseRequests
    /\ pc = "idle"
    /\ prompt_version = NoneV
    /\ short_list = NoneV
    /\ llm_response = NoneV
    /\ oq_response = NoneV
    /\ results = <<>>
    /\ caught = NoneV
    /\ outcome = NoneV
    /\ calls = <<>>
    /\ soc_search_result = NoneV
    /\ log = <<>>
    /\ ar_pc = "start"
    /\ classifier_list \in {Some(cl) : cl \in ClassifierLists}
    /\ ar_candidates = NoneV
    /\ rephrased_candidates = <<>>
    /\ result_candidates = NoneV
    /\ lookup_raised = FALSE

\* The strategy maps the classifier's list, and with a rephrase client and a
\* non-empty list calls _apply_rephrasing, which returns at once when
\* rephrasing is disabled and enters its loop otherwise.
MapCandidates ==
    /\ ar_pc = "start"
    /\ LET candidates == map_candidates(Val(classifier_list))
       IN  /\ ar_candidates' = Some(candidates)
           /\ IF candidates # <<>> /\ SicRephrasingEnabled(req)
              THEN /\ ar_pc' = "loop"
                   /\ result_candidates' = result_candidates
              ELSE /\ ar_pc' = "returned"
                   /\ result_candidates' = Some(candidates)
    /\ UNCHANGED <<classifier_list, rephrased_candidates, lookup_raised>>
    /\ UNCHANGED <<handler_vars, service_vars, lookup_vars, store_vars,
                   concurrent_vars>>

\* The candidate the loop of _apply_rephrasing is at.
NextCandidate == Val(ar_candidates)[Len(rephrased_candidates) + 1]

\* Mutant: the except clause returns what was rephrased so far, followed by
\* the candidates not yet reached.
LookupRaise_Partial ==
    /\ ar_pc = "loop"
    /\ Len(rephrased_candidates) < Len(Val(ar_candidates))
    /\ lookup_raised' = TRUE
    /\ result_candidates' =
            Some([i \in 1..Len(Val(ar_candidates)) |->
                    IF i <= Len(rephrased_candidates)
                    THEN rephrased_candidates[i] ELSE Val(ar_candidates)[i]])
    /\ ar_pc' = "returned"
    /\ UNCHANGED <<classifier_list, ar_candidates, rephrased_candidates>>
    /\ UNCHANGED <<handler_vars, service_vars, lookup_vars, store_vars,
                   concurrent_vars>>

\* A lookup raises: `except Exception` logs a warning and returns candidates.
LookupRaise ==
    /\ ar_pc = "loop"
    /\ Len(rephrased_candidates) < Len(Val(ar_candidates))
    /\ lookup_raised' = TRUE
    /\ result_candidates' = ar_candidates
    /\ ar_pc' = "returned"
    /\ UNCHANGED <<classifier_list, ar_candidates, rephrased_candidates>>
    /\ UNCHANGED <<handler_vars, service_vars, lookup_vars, store_vars,
                   concurrent_vars>>

\* A lookup returns: the candidate is appended, with the table's description
\* when there is one; after the last candidate the loop's list is returned.
LookupReturn ==
    /\ ar_pc = "loop"
    /\ Len(rephrased_candidates) < Len(Val(ar_candidates))
    /\ LET candidate == NextCandidate
           rephrased_text ==
               get_rephrased_description(rephrased_descriptions, candidate.code)
           appended ==
               Append(rephrased_candidates,
                      IF IsSome(rephrased_text)
                      THEN GenericCandidate(candidate.code, Val(rephrased_text),
                                            candidate.likelihood)
                      ELSE candidate)
       IN  /\ rephrased_candidates' = appended
           /\ IF Len(appended) = Len(Val(ar_candidates))
              THEN /\ ar_pc' = "returned"
                   /\ result_candidates' = Some(appended)
              ELSE /\ ar_pc' = "loop"
                   /\ result_candidates' = result_candidates
    /\ UNCHANGED <<classifier_list, ar_candidates, lookup_raised>>
    /\ UNCHANGED <<handler_vars, service_vars, lookup_vars, store_vars,
                   concurrent_vars>>

NextRephrase ==
    \/ MapCandidates
    \/ LookupReturn
    \/ LookupRaise

SpecRephrase == InitRephrase /\ [][NextRephrase]_vars

-----------------------------------------------------------------------------
(* api/routes/v1/result.py and api/services/result_service.py: the results   *)
(* collection and its listing                                               *)

MaxDocs == 2

SurveyIds == {"s1", "s2"}
WaveIds == {"w1", "w2"}
CaseIds == {"c1", "c2"}

\* The identifying fields of a stored result; a stored case_id is a string.
ResultDatas == [survey_id : SurveyIds, wave_id : WaveIds, case_id : CaseIds]

\* The arguments of GET /results: case_id is optional.
ListQueries ==
    [survey_id : SurveyIds, wave_id : WaveIds,
     case_id : {NoneV} \cup {Some(c) : c \in CaseIds}]

\* `collection.where("survey_id", "==", survey_id).where("wave_id", "==",
\* wave_id).where("case_id", "==", case_id)`: the three filters are always
\* applied, and an equality filter on None selects documents whose field is
\* null, which no stored string is.
query_matches(doc, survey_id, wave_id, case_id) ==
    /\ doc.data.survey_id = survey_id
    /\ doc.data.wave_id = wave_id
    /\ IsSome(case_id) /\ doc.data.case_id = Val(case_id)

\* list_results: the matching documents, each with its document_id.
list_results(collection, survey_id, wave_id, case_id) ==
    LET Selected(doc) == query_matches(doc, survey_id, wave_id, case_id)
        docs == SelectSeq(collection, Selected)
    IN  [i \in 1..Len(docs) |->
            [survey_id |-> docs[i].data.survey_id,
             wave_id |-> docs[i].data.wave_id,
             case_id |-> docs[i].data.case_id,
             document_id |-> docs[i].id]]

\* ResultWithId(**data): the result's fields and its document_id.
ResultWithId(data) == data

\* ListResultsResponse(results=results, count=len(results)).
ListResultsResponse(res) == [kind |-> "response", results |-> res, count |-> Len(res)]

\* What the except clauses of list_survey_results raise.
StorageErrors ==
    {[kind |-> "error", status |-> 503, detail |-> "Storage service unavailable: "],
     [kind |-> "error", status |-> 503, detail |-> "Storage service error: "],
     [kind |-> "error", status |-> 500, detail |-> "Internal server error: "]}

InitStore ==
    /\ HandlerIdle
    /\ ServiceIdle
    /\ LookupIdle
    /\ RephraseIdle
    /\ ConcurrentIdle
    /\ settings_default = ""
    /\ rephrased_descriptions = <<>>
    /\ survey_results = <<>>
    /\ list_query = NoneV
    /\ list_response = NoneV

\* store_result: a new document with an id of its own.
StoreResult ==
    /\ Len(survey_results) < MaxDocs
    /\ \E data \in ResultDatas :
        survey_results' =
            Append(survey_results, [id |-> Len(survey_results) + 1, data |-> data])
    /\ UNCHANGED <<list_query, list_response>>
    /\ UNCHANGED <<handler_vars, service_vars, lookup_vars, rephrase_vars,
                   concurrent_vars>>

\* list_survey_results returns.  list_query keeps, with the arguments, the
\* collection the query ran on.
ListSurveyResults ==
    /\ \E q \in ListQueries :
        LET results_data ==
                list_results(survey_results, q.survey_id, q.wave_id, q.case_id)
            res == [i \in 1..Len(results_data) |-> ResultWithId(results_data[i])]
        IN  /\ list_query' = Some([survey_id |-> q.survey_id, wave_id |-> q.wave_id,
                                   case_id |-> q.case_id,
                                   collection |-> survey_results])
            /\ list_response' = Some(ListResultsResponse(res))
    /\ UNCHANGED survey_results
    /\ UNCHANGED <<handler_vars, service_vars, lookup_vars, rephrase_vars,
                   concurrent_vars>>

\* The storage client raises: list_survey_results answers 503 or 500.
ListSurveyResultsRaise ==
    /\ \E q \in ListQueries, e \in StorageErrors :
        /\ list_query' = Some([survey_id |-> q.survey_id, wave_id |-> q.wave_id,
                               case_id |-> q.case_id,
                               collection |-> survey_results])
        /\ list_response' = Some(e)
    /\ UNCHANGED survey_results
    /\ UNCHANGED <<handler_vars, service_vars, lookup_vars, rephrase_vars,
                   concurrent_vars>>

NextStore ==
    \/ StoreResult
    \/ ListSurveyResults
    \/ ListSurveyResultsRaise

SpecStore == InitStore /\ [][NextStore]_vars

-----------------------------------------------------------------------------
(* Two classify requests on one event loop.  A handler runs from one await  *)
(* to the next without interruption; at an await the loop may resume the    *)
(* other handler.  Each handler has its own locals; settings and the        *)
(* rephrase client are the application's.                                   *)

\* The locals of the handler that holds the loop.
Locals ==
    [req |-> req, pc |-> pc, prompt_version |-> prompt_version,
     short_list |-> short_list, llm_response |-> llm_response,
     oq_response |-> oq_response, results |-> results, caught |-> caught,
     outcome |-> outcome, calls |-> calls,
     soc_search_result |-> soc_search_result, log |-> log]

\* The locals of a handler that has not run yet.
Arrived(r) ==
    [req |-> r, pc |-> "start", prompt_version |-> NoneV, short_list |-> NoneV,
     llm_response |-> NoneV, oq_response |-> NoneV, results |-> <<>>,
     caught |-> NoneV, outcome |-> NoneV, calls |-> <<>>,
     soc_search_result |-> NoneV, log |-> <<>>]

\* The first request: SOC only.
FirstRequests ==
    {r \in Requests : /\ r.llm = "gemini" /\ r.type = "soc"
                      /\ r.job_title = <<" ", "a">>
                      /\ r.job_description = <<" ", "a">>
                      /\ r.prompt_version = NoneV
                      /\ r.options \in {NoneV,
                            Some([sic |-> NoneV, soc |-> Some([rephrased |-> TRUE])])}}

\* The second request: two-step SIC, rephrasing by default or switched off.
SecondRequests ==
    {r \in Requests : /\ r.llm = "chat-gpt" /\ r.type = "sic"
                      /\ r.job_title = <<" ", "a">>
                      /\ r.job_description = <<" ", "a">>
                      /\ r.prompt_version = Some("v3")
                      /\ r.options \in {NoneV,
                            Some([sic |-> Some([rephrased |-> FALSE]), soc |-> NoneV])}}

InitConcurrent ==
    /\ ServiceIdle
    /\ LookupIdle
    /\ RephraseIdle
    /\ StoreIdle
    /\ settings_default = ""
    /\ rephrased_descriptions \in RephraseTables
    /\ loaded_descriptions = Some(rephrased_descriptions)
    /\ running = 1
    /\ req \in FirstRequests
    /\ pc = "start"
    /\ prompt_version = NoneV
    /\ short_list = NoneV
    /\ llm_response = NoneV
    /\ oq_response = NoneV
    /\ results = <<>>
    /\ caught = NoneV
    /\ outcome = NoneV
    /\ calls = <<>>
    /\ soc_search_result = NoneV
    /\ log = <<>>
    /\ waiting \in {Some(Arrived(r)) : r \in SecondRequests}

\* Mutant: `results` is one list of the module, shared by the handlers.
Switch_SharedResults ==
    /\ running \in {1, 2}
    /\ running' = 3 - running
    /\ waiting' = Some(Locals)
    /\ req' = Val(waiting).req
    /\ pc' = Val(waiting).pc
    /\ prompt_version' = Val(waiting).prompt_version
    /\ short_list' = Val(waiting).short_list
    /\ llm_response' = Val(waiting).llm_response
    /\ oq_response' = Val(waiting).oq_response
    /\ results' = results
    /\ caught' = Val(waiting).caught
    /\ outcome' = Val(waiting).outcome
    /\ calls' = Val(waiting).calls
    /\ soc_search_result' = Val(waiting).soc_search_result
    /\ log' = Val(waiting).log
    /\ UNCHANGED <<settings_default, rephrased_descriptions, loaded_descriptions>>
    /\ UNCHANGED <<service_vars, lookup_vars, rephrase_vars, store_vars>>

\* The loop resumes the other handler.
Switch ==
    /\ running \in {1, 2}
    /\ running' = 3 - running
    /\ waiting' = Some(Locals)
    /\ req' = Val(waiting).req
    /\ pc' = Val(waiting).pc
    /\ prompt_version' = Val(waiting).prompt_version
    /\ short_list' = Val(waiting).short_list
    /\ llm_response' = Val(waiting).llm_response
    /\ oq_response' = Val(waiting).oq_response
    /\ results' = Val(waiting).results
    /\ caught' = Val(waiting).caught
    /\ outcome' = Val(waiting).outcome
    /\ calls' = Val(waiting).calls
    /\ soc_search_result' = Val(waiting).soc_search_result
    /\ log' = Val(waiting).log
    /\ UNCHANGED <<settings_default, rephrased_descriptions, loaded_descriptions>>
    /\ UNCHANGED <<service_vars, lookup_vars, rephrase_vars, store_vars>>

\* The steps of the SOC path and of the two-step SIC strategy, and the loop's.
NextConcurrent ==
    \/ Start
    \/ SicSearchReturn
    \/ SicSearchRaise
    \/ UnambiguousReturn
    \/ UnambiguousRaise
    \/ OpenQuestionReturn
    \/ OpenQuestionRaise
    \/ SocSearchReturn
    \/ SocSearchRaise
    \/ Switch

SpecConcurrent == InitConcurrent /\ [][NextConcurrent]_vars

-----------------------------------------------------------------------------
(* Vocabulary of the properties *)

Done == pc = "done"
Failed == Done /\ Val(outcome).kind = "error"
Responded == Done /\ Val(outcome).kind = "response"
Response == Val(outcome).response
Status == Val(outcome).status

Called(op) == \E i \in DOMAIN calls : calls[i].op = op
IsBlank(s) == \A i \in DOMAIN s : s[i] = " "
BlankInput == IsBlank(req.job_title) \/ IsBlank(req.job_description)
SuppliedInvalidVersion ==
    IsSome(req.prompt_version) /\ Val(req.prompt_version) \notin {"v1v2", "v3"}

\* The SIC result of the request, once classify_text has it.
HasSicResult == results # <<>> /\ results[1].type = "sic"
SicResult == results[1]

-----------------------------------------------------------------------------
(* C1 *)

LLMFailureDetails ==
    {"Single-prompt classification failed: ",
     "Unambiguous classification failed: ",
     "Open question formulation failed: "}

\* C1: a 422 classification failure raised inside a SIC strategy, and a 400
\* validation error, reach the caller of classify_text with their own status
\* code; neither is re-reported as HTTP 500.
C1_OwnStatusReachesCaller ==
    Done =>
        /\ (IsSome(caught) /\ Val(caught).status = 422
                /\ Val(caught).detail[3] \in LLMFailureDetails)
                => Status = 422
        /\ (SuppliedInvalidVersion \/ BlankInput) => (Failed /\ Status = 400)

-----------------------------------------------------------------------------
(* C2 *)

\* C2: a request whose job_title or job_description is empty or whitespace-only
\* is rejected with HTTP 400, whatever its type and prompt version, and no
\* outbound call and no rephrase lookup is made for it.
C2_BlankInputRejected ==
    BlankInput =>
        /\ calls = <<>>
        /\ pc \in {"start", "done"}
        /\ Done => (Failed /\ Status = 400)

\* A whitespace-only title with a valid prompt version has been rejected.
C2_Witness ==
    /\ Failed /\ Status = 400
    /\ req.job_title = <<" ">> /\ ~IsBlank(req.job_description)
    /\ req.prompt_version = Some("v3")
    /\ req.type = "sic_soc"

-----------------------------------------------------------------------------
(* C3 *)

\* C3: a supplied prompt_version outside {v1v2, v3} is rejected with HTTP 400
\* before any outbound call, for every request type; a supplied valid value is
\* used unchanged; an absent value resolves to the configured default.  The
\* version resolved is the one that selects the SIC strategy.
C3_PromptVersionResolution ==
    pc # "start" =>
        /\ SuppliedInvalidVersion => (Failed /\ Status = 400 /\ calls = <<>>)
        /\ (IsSome(req.prompt_version) /\ ~SuppliedInvalidVersion)
                => prompt_version = req.prompt_version
        /\ IsNone(req.prompt_version)
                => prompt_version =
                      Some(IF settings_default = "" THEN "v1v2" ELSE settings_default)
        /\ Called("sa_rag_sic_code") => prompt_version = Some("v1v2")
        /\ Called("unambiguous_sic_code") => prompt_version = Some("v3")

\* An unknown version on a SOC request, with valid text, has been rejected.
C3_Witness ==
    /\ Failed /\ Status = 400
    /\ req.prompt_version = Some("v4")
    /\ req.type = "soc"
    /\ ~BlankInput

-----------------------------------------------------------------------------
(* C4 *)

\* C4: when the shortlist search of a requested domain fails at transport
\* level (the client raises its 503), the outcome of the endpoint is a 503.
C4_SearchFailureIs503 ==
    (Done /\ IsSome(caught) /\ Val(caught).http /\ Val(caught).status = 503)
        => Status = 503

-----------------------------------------------------------------------------
(* C5 *)

OpenQuestionCalls == {i \in DOMAIN calls : calls[i].op = "formulate_open_question"}

\* The candidates cands are mapped from alt one to one: same length, same
\* order, same codes and likelihoods; a descriptive is the reply's or the
\* rephrase table's.
MappedFrom(cands, alt) ==
    /\ Len(cands) = Len(alt)
    /\ \A i \in DOMAIN alt :
        /\ cands[i].code = alt[i].class_code
        /\ cands[i].likelihood = alt[i].likelihood
        /\ \/ cands[i].descriptive = alt[i].class_descriptive
           \/ \E c \in DOMAIN rephrased_descriptions :
                cands[i].descriptive = rephrased_descriptions[c]

\* C5: in the two-step strategy formulate_open_question gets exactly the
\* alt_candidates list of the unambiguous reply (all N, in order), and the
\* unclassified result has its candidates mapped from the same list and the
\* followup of the open-question reply.
C5_OpenQuestionGetsAllCandidates ==
    /\ \A i \in OpenQuestionCalls : calls[i].arg = Val(llm_response).alt_candidates
    /\ (IsSome(oq_response) /\ HasSicResult) =>
        /\ ~SicResult.classified
        /\ SicResult.followup = Val(oq_response).followup
        /\ MappedFrom(SicResult.candidates, Val(Val(llm_response).alt_candidates))

\* A not-codable reply with two different candidates has been answered.
C5_Witness ==
    /\ Responded /\ HasSicResult /\ IsSome(oq_response)
    /\ ~Val(llm_response).codable
    /\ Len(SicResult.candidates) = 2
    /\ SicResult.candidates[1].code = Code2
    /\ SicResult.candidates[2].code = Code4
    /\ IsSome(SicResult.followup)

-----------------------------------------------------------------------------
(* C6 *)

UnambiguousReplied == Called("unambiguous_sic_code") /\ IsSome(llm_response)

\* What the two-step strategy owes when the unambiguous step found a code.
ClassifiedDirectly(resp) ==
    /\ OpenQuestionCalls = {}
    /\ IsNone(oq_response)
    /\ HasSicResult =>
        /\ SicResult.classified
        /\ SicResult.code = resp.class_code
        /\ IsNone(SicResult.followup)
        /\ MappedFrom(SicResult.candidates, Val(resp.alt_candidates))

\* C6 as stated: the open question is asked iff the unambiguous step did not
\* report codable with a non-null code.
C6_OpenQuestionIffNullCode ==
    UnambiguousReplied =>
        LET resp == Val(llm_response)
            reported == resp.codable /\ IsSome(resp.class_code)
        IN  /\ (OpenQuestionCalls # {}) <=> ~reported
            /\ reported => ClassifiedDirectly(resp)

\* C6 amended: once the unambiguous call has returned, the open question is
\* asked iff the reply is not codable with a non-null, non-empty code; a codable
\* reply with such a code gives classified=true with that code, no followup,
\* candidates mapped from alt_candidates, and no open-question call.
C6_OpenQuestionIffNoCode ==
    UnambiguousReplied =>
        LET resp == Val(llm_response)
            reported == resp.codable /\ IsSome(resp.class_code)
                            /\ Val(resp.class_code) # <<>>
        IN  /\ (OpenQuestionCalls # {}) <=> ~reported
            /\ reported => ClassifiedDirectly(resp)

\* A codable reply with a code has been answered without the open question.
C6_Witness ==
    /\ Responded /\ HasSicResult /\ UnambiguousReplied
    /\ Val(llm_response).codable
    /\ Val(llm_response).class_code = Some(Code4)
    /\ SicResult.classified
    /\ OpenQuestionCalls = {}

-----------------------------------------------------------------------------
(* C7 *)

\* The ClassificationResult invariant of the data model.
WellShaped(res) ==
    /\ res.classified =>
        (IsSome(res.code) /\ IsSome(res.description) /\ IsNone(res.followup))
    /\ ~res.classified =>
        (IsNone(res.code) /\ IsNone(res.description) /\ IsSome(res.followup))

\* C7: every result classify produces, for every LLM reply, has code and
\* description and no followup when classified, and a followup and no code or
\* description when not; on both SIC strategies and the SOC path.
C7_ResultShape == \A i \in DOMAIN results : WellShaped(results[i])

-----------------------------------------------------------------------------
(* C8 *)

SinglePromptReplied == Called("sa_rag_sic_code") /\ IsSome(llm_response)

\* C8: the single-prompt result is classified iff the reply reports codable or
\* classified and carries a code.
C8_ClassifiedIffFlagAndCode ==
    (SinglePromptReplied /\ HasSicResult) =>
        LET resp == Val(llm_response)
        IN  SicResult.classified <=>
                ((resp.codable \/ resp.classified) /\ IsSome(resp.sic_code))

-----------------------------------------------------------------------------
(* C9 *)

HasMeta == "meta" \in DOMAIN Response
Meta == Val(Response.meta)

\* C9: a successful response carries meta iff the request carried options (an
\* options block without sub-blocks included); without options it is the
\* no-meta variant, never meta=null; applied_options has no entry for a domain
\* the request type did not ask for.
C9_MetaIffOptions ==
    Responded =>
        /\ HasMeta <=> IsSome(req.options)
        /\ ~HasMeta => Response.variant = "GenericClassificationResponseWithoutMeta"
        /\ HasMeta =>
            /\ Response.variant = "GenericClassificationResponse"
            /\ IsSome(Response.meta)
            /\ IsSome(Meta.applied_options.sic) => req.type \in {"sic", "sic_soc"}
            /\ IsSome(Meta.applied_options.soc) => req.type \in {"soc", "sic_soc"}

\* A SIC-only request whose options name only SOC got meta without a SOC entry.
C9_Witness ==
    /\ Responded /\ HasMeta
    /\ req.type = "sic"
    /\ req.options = Some([sic |-> NoneV, soc |-> Some([rephrased |-> FALSE])])
    /\ IsNone(Meta.applied_options.soc)
    /\ IsNone(Meta.applied_options.sic)

-----------------------------------------------------------------------------
(* C10 *)

LookupCalls == {i \in DOMAIN calls : calls[i].op = "rephrase_lookup"}

\* C10 as stated: with options present, every domain classified has its
\* applied_options entry, holding the rephrased flag applied to the domain, and
\* meta.llm is the request's llm.
C10_EveryClassifiedDomainReported ==
    (Responded /\ IsSome(req.options)) =>
        /\ Meta.llm = req.llm
        /\ req.type \in {"sic", "sic_soc"} =>
            /\ IsSome(Meta.applied_options.sic)
            /\ Val(Meta.applied_options.sic).rephrased = SicRephrasingEnabled(req)
        /\ req.type \in {"soc", "sic_soc"} =>
            /\ IsSome(Meta.applied_options.soc)
            /\ Val(Meta.applied_options.soc).rephrased = SocRephrasingEnabled(req)

\* C10 amended: with options present, meta.llm is the request's llm; a domain
\* classified whose sub-block is present has its applied_options entry with the
\* sub-block's rephrased flag, which is the flag applied (SIC lookups are made
\* for every candidate when it is true, none when it is false); a domain
\* classified whose sub-block is absent has no entry.
C10_ReportedWhenSubBlockPresent ==
    (Responded /\ IsSome(req.options)) =>
        LET opts == Val(req.options)
            ao == Meta.applied_options
        IN  /\ Meta.llm = req.llm
            /\ req.type \in {"sic", "sic_soc"} =>
                /\ IsSome(ao.sic) <=> IsSome(opts.sic)
                /\ IsSome(ao.sic) =>
                    /\ Val(ao.sic).rephrased = Val(opts.sic).rephrased
                    /\ Val(ao.sic).rephrased = SicRephrasingEnabled(req)
                    /\ Cardinality(LookupCalls) =
                         IF Val(ao.sic).rephrased THEN Len(SicResult.candidates) ELSE 0
            /\ req.type \in {"soc", "sic_soc"} =>
                /\ IsSome(ao.soc) <=> IsSome(opts.soc)
                /\ IsSome(ao.soc) =>
                    /\ Val(ao.soc).rephrased = Val(opts.soc).rephrased
                    /\ Val(ao.soc).rephrased = SocRephrasingEnabled(req)

\* Both domains classified, SIC with rephrasing off and SOC with it on, and the
\* SIC candidates were not looked up.
C10_Witness ==
    /\ Responded /\ req.type = "sic_soc"
    /\ req.options = Some([sic |-> Some([rephrased |-> FALSE]),
                           soc |-> Some([rephrased |-> TRUE])])
    /\ Meta.applied_options.sic = Some([rephrased |-> FALSE])
    /\ Meta.applied_options.soc = Some([rephrased |-> TRUE])
    /\ Meta.llm = "gemini"
    /\ Len(SicResult.candidates) = 2
    /\ LookupCalls = {}

-----------------------------------------------------------------------------
(* C11 *)

ResultTypes(res) == [i \in DOMAIN res |-> res[i].type]

\* C11: a successful response carries one sic result for type sic, one soc
\* result for type soc, and for type sic_soc two results, the SIC one first and
\* the SOC one second; requested_type is the type of the request.
C11_ResultsPerType ==
    Responded =>
        /\ Response.requested_type = req.type
        /\ Response.results = results
        /\ ResultTypes(Response.results) =
              CASE req.type = "sic" -> <<"sic">>
                [] req.type = "soc" -> <<"soc">>
                [] req.type = "sic_soc" -> <<"sic", "soc">>

\* A sic_soc request has been answered with both results.
C11_Witness ==
    /\ Responded /\ req.type = "sic_soc"
    /\ Len(Response.results) = 2
    /\ ~Response.results[1].classified
    /\ Response.results[2].classified

-----------------------------------------------------------------------------
(* C12 *)

\* The flag of a domain's sub-block, true without options or without sub-block.
RephrasingRule(r, domain) ==
    IF IsNone(r.options) THEN TRUE
    ELSE LET sub == IF domain = "sic" THEN Val(r.options).sic ELSE Val(r.options).soc
         IN  IF IsNone(sub) THEN TRUE ELSE Val(sub).rephrased

SocPathReturned == IsSome(soc_search_result)

\* C12: the rephrasing decision of a domain is true without an options block
\* or without the domain's sub-block and is the sub-block's rephrased flag
\* otherwise, on the SIC path (lookups are made for a non-empty candidate list
\* exactly when it is true) and on the SOC path (the notice is logged exactly
\* when it is true).
C12_RephrasingDecision ==
    /\ SicRephrasingEnabled(req) = RephrasingRule(req, "sic")
    /\ SocRephrasingEnabled(req) = RephrasingRule(req, "soc")
    /\ (HasSicResult /\ SicResult.candidates # <<>>)
            => (LookupCalls # {} <=> RephrasingRule(req, "sic"))
    /\ ~HasSicResult => LookupCalls = {}
    /\ log = IF SocPathReturned /\ RephrasingRule(req, "soc")
             THEN <<SOC_REPHRASING_NOTICE>> ELSE <<>>

\* Both paths have run for options that switch SIC off and say nothing of SOC.
C12_Witness ==
    /\ Responded /\ req.type = "sic_soc"
    /\ req.options = Some([sic |-> Some([rephrased |-> FALSE]), soc |-> NoneV])
    /\ SicResult.candidates # <<>>
    /\ LookupCalls = {}
    /\ log = <<SOC_REPHRASING_NOTICE>>

-----------------------------------------------------------------------------
(* C13 *)

\* The entry the rephrase table has for a code: the entry of the trimmed code,
\* else for a 4-character code the entry of "0" + code, else none.
EntryFor(table, code) ==
    LET trimmed == Strip(code)
    IN  CASE trimmed \in DOMAIN table -> Some(table[trimmed])
          [] trimmed \notin DOMAIN table /\ Len(trimmed) = 4
                /\ (<<"0">> \o trimmed) \in DOMAIN table
                -> Some(table[<<"0">> \o trimmed])
          [] OTHER -> NoneV

\* The candidates as the LLM reported them, whichever strategy ran.
LLMCandidates ==
    IF Called("sa_rag_sic_code")
    THEN LET c == Val(llm_response).sic_candidates
         IN  IF IsNone(c) THEN <<>>
             ELSE [i \in DOMAIN Val(c) |->
                     [code |-> Val(c)[i].sic_code,
                      descriptive |-> Val(c)[i].sic_descriptive]]
    ELSE LET c == Val(Val(llm_response).alt_candidates)
         IN  [i \in DOMAIN c |->
                [code |-> c[i].class_code, descriptive |-> c[i].class_descriptive]]

\* C13: in a SIC result of either strategy, with rephrasing enabled a
\* candidate whose code has an entry in the rephrase table carries that entry
\* as its descriptive and any other candidate carries the descriptive the LLM
\* reported; with options.sic.rephrased = false every candidate carries the
\* LLM's descriptive and no lookup is made.
C13_CandidatesRephrased ==
    HasSicResult =>
        /\ Len(SicResult.candidates) = Len(LLMCandidates)
        /\ \A i \in DOMAIN LLMCandidates :
            LET entry == EntryFor(rephrased_descriptions, LLMCandidates[i].code)
            IN  /\ SicResult.candidates[i].code = LLMCandidates[i].code
                /\ SicResult.candidates[i].descriptive =
                      IF RephrasingRule(req, "sic") /\ IsSome(entry)
                      THEN Val(entry)
                      ELSE LLMCandidates[i].descriptive
        /\ ~RephrasingRule(req, "sic") => LookupCalls = {}

\* Without options, one candidate has been rephrased and one kept.
C13_Witness ==
    /\ Responded /\ HasSicResult
    /\ IsNone(req.options)
    /\ Len(SicResult.candidates) = 2
    /\ SicResult.candidates[1].code = Code4
    /\ SicResult.candidates[1].descriptive = "rephrased 1234"
    /\ SicResult.candidates[2].code = Code2
    /\ SicResult.candidates[2].descriptive = "llm 99"

-----------------------------------------------------------------------------
(* C14 *)

\* What the LLM reported for the main fields of the SIC result of a strategy
\* that classified or did not: a function of the replies alone.
LLMReported(is_classified) ==
    IF Called("sa_rag_sic_code")
    THEN [classified |-> is_classified,
          code |-> IF is_classified THEN Val(llm_response).sic_code ELSE NoneV,
          description |->
              IF is_classified THEN Val(llm_response).sic_descriptive ELSE NoneV,
          followup |-> Val(llm_response).followup,
          reasoning |-> Val(llm_response).reasoning]
    ELSE [classified |-> is_classified,
          code |-> IF is_classified THEN Val(llm_response).class_code ELSE NoneV,
          description |->
              IF is_classified THEN Val(llm_response).class_descriptive ELSE NoneV,
          followup |-> IF is_classified THEN NoneV ELSE Val(oq_response).followup,
          reasoning |-> Val(llm_response).reasoning]

MainFields(res) ==
    [classified |-> res.classified, code |-> res.code,
     description |-> res.description, followup |-> res.followup,
     reasoning |-> res.reasoning]

\* C14: the main fields of a SIC result (description, code, classified,
\* followup, reasoning) are what the LLM reported, for every rephrase table
\* and every options block: rephrasing never touches them, even when the
\* main code has an entry in the table.
C14_MainDescriptionKept ==
    HasSicResult => MainFields(SicResult) = LLMReported(SicResult.classified)

\* A classified result whose main code has an entry: the candidate with that
\* code was rephrased, the main description was not.
C14_Witness ==
    /\ Responded /\ HasSicResult
    /\ SicResult.classified
    /\ RephrasingRule(req, "sic")
    /\ SicResult.code = Some(Code4)
    /\ IsSome(EntryFor(rephrased_descriptions, Code4))
    /\ SicResult.description = Some("llm text")
    /\ SicResult.candidates # <<>>
    /\ SicResult.candidates[1].code = Code4
    /\ SicResult.candidates[1].descriptive = "rephrased 01234"

-----------------------------------------------------------------------------
(* C15 *)

SocDone == soc_pc = "done"
SocAnswer == Val(soc_returned).validated_answer

\* The text is a JSON object that fits the schema of SocClassificationResponse.
MatchesSchema(raw) ==
    /\ IsSome(raw.json)
    /\ \A k \in {"classified", "soc_candidates", "reasoning"} : k \in DOMAIN Val(raw.json)
    /\ \A i \in DOMAIN Val(raw.json).soc_candidates :
          Val(raw.json).soc_candidates[i].likelihood \in 0..100

ChainRaised == SocDone /\ chain_calls # <<>> /\ IsNone(soc_response)
ParseFailed == SocDone /\ IsSome(soc_response) /\ ~MatchesSchema(Val(soc_response))

\* The degraded shape: unclassified, a non-empty followup, no code, no
\* description, no candidates.
Degraded(answer) ==
    /\ ~answer.classified
    /\ IsSome(answer.followup) /\ Val(answer.followup) # ""
    /\ IsNone(answer.soc_code)
    /\ IsNone(answer.soc_description)
    /\ answer.soc_candidates = <<>>

\* C15: when the SOC LLM call raises, or its text does not parse against the
\* schema, sa_rag_soc_code returns (it never raises) an answer with
\* classified = false, a non-empty followup, no code, no description and no
\* candidates.
C15_SocFailureDegrades ==
    /\ SocDone => (IsSome(soc_returned) /\ Val(soc_returned).kind = "return")
    /\ (ChainRaised \/ ParseFailed) => Degraded(SocAnswer)

\* A JSON reply without the required reasoning has been absorbed.
C15_Witness ==
    /\ ParseFailed
    /\ Val(soc_response).text = "no reasoning"
    /\ Degraded(SocAnswer)
    /\ Len(chain_calls) = 1

-----------------------------------------------------------------------------
(* C16 *)

\* The SOC result of the request, once _classify_soc has returned it.
SocResult == results[Len(results)]

\* C16: when the SOC shortlist search returns an empty list, the SOC result
\* of the request has the degraded shape (classified = false, a followup, no
\* code, no candidates) and the SOC LLM is not called in that request.
C16_EmptyShortlistDegrades ==
    (SocPathReturned /\ Val(soc_search_result) = <<>>) =>
        /\ ~SocResult.classified
        /\ IsSome(SocResult.followup)
        /\ IsNone(SocResult.code)
        /\ SocResult.candidates = <<>>
        /\ ~Called("sa_rag_soc_code")

-----------------------------------------------------------------------------
(* C17 *)

UnambiguousRaised == Done /\ Called("unambiguous_sic_code") /\ IsNone(llm_response)
OpenQuestionRaised == Done /\ Called("formulate_open_question") /\ IsNone(oq_response)

\* The strategy raised the structured 422 whose details start with prefix.
ClassificationFailure(prefix) ==
    /\ IsSome(caught)
    /\ Val(caught).status = 422 /\ Val(caught).structured
    /\ Val(caught).detail[1] = "classification_error"
    /\ Val(caught).detail[3] = prefix
    /\ Val(caught).detail[4] \in ErrMsgs

\* C17: in the two-step strategy an exception from the unambiguous call is
\* raised as a classification failure whose details start with "Unambiguous
\* classification failed" and the open question is then not called; an
\* exception from the open-question call is raised as one whose details start
\* with "Open question formulation failed"; in both cases no result is
\* returned.
C17_FailingStepIdentified ==
    /\ UnambiguousRaised =>
        /\ ClassificationFailure("Unambiguous classification failed: ")
        /\ ~Called("formulate_open_question")
        /\ Failed /\ results = <<>>
    /\ OpenQuestionRaised =>
        /\ ClassificationFailure("Open question formulation failed: ")
        /\ Failed /\ results = <<>>

\* The open question has failed after a reply with two candidates.
C17_Witness ==
    /\ OpenQuestionRaised
    /\ IsSome(Val(llm_response).alt_candidates)
    /\ Len(Val(Val(llm_response).alt_candidates)) = 2
    /\ Val(caught).detail[3] = "Open question formulation failed: "
    /\ Val(caught).detail[4] = "timeout"

-----------------------------------------------------------------------------
(* C18 *)

\* The single-prompt strategy has raised; caught is what it raised.
SinglePromptFailed ==
    /\ Done /\ IsSome(caught) /\ results = <<>>
    /\ Called("sic_search") /\ prompt_version = Some("v1v2")

StructuredFailure(e) ==
    /\ e.http /\ e.status = 422 /\ e.structured
    /\ e.detail[1] = "classification_error"

\* C18 as stated: whatever goes wrong in the single-prompt strategy (search,
\* projection, LLM call, interpretation), the strategy raises the structured
\* 422 classification failure and nothing else.
C18_AnyExceptionIs422 ==
    SinglePromptFailed => StructuredFailure(Val(caught))

\* C18 amended: the single-prompt strategy raises the structured 422 for a
\* failing projection, LLM call or interpretation; a failing shortlist
\* search raises an HTTPException (503 or 500, plain detail) that leaves the
\* strategy unchanged, before the LLM is called.
C18_NonHTTPExceptionIs422 ==
    SinglePromptFailed =>
        \/ StructuredFailure(Val(caught))
        \/ /\ Val(caught) \in SearchErrors("SIC vector store")
           /\ ~Called("sa_rag_sic_code")

\* A shortlist entry without its keys has made the projection fail.
C18_Witness ==
    /\ SinglePromptFailed
    /\ StructuredFailure(Val(caught))
    /\ Val(caught).detail[3] = "Response was empty or invalid JSON: "
    /\ ~Called("sa_rag_sic_code")

-----------------------------------------------------------------------------
(* C19 *)

\* The text m occurs in the detail the caller receives.
Echoed(m) == \E i \in DOMAIN Val(outcome).detail : Val(outcome).detail[i] = m

\* C19: a 500 produced by classify_text's handler carries a generic message
\* only: the message of the underlying exception does not occur in it, so
\* two runs that differ in that message alone give the caller the same error.
C19_CauseNotEchoed ==
    (Failed /\ Status = 500 /\ IsSome(caught)) => \A m \in ErrMsgs : ~Echoed(m)

-----------------------------------------------------------------------------
(* C20 *)

LookedUp == IsSome(lookup_code)
TrimmedCode == Strip(Val(lookup_code))
PaddedCode == <<"0">> \o TrimmedCode

\* C20: get_rephrased_description trims the code and returns the entry of the
\* exact code when there is one; otherwise, only for a code of exactly 4
\* characters, the entry of "0" + code when there is one; otherwise nothing.
\* The exact entry wins over the padded one and a code of another length is
\* never padded.
C20_LookupExactThenPadded ==
    LookedUp =>
        /\ lookup_result = EntryFor(rephrased_descriptions, Val(lookup_code))
        /\ TrimmedCode \in DOMAIN rephrased_descriptions
                => lookup_result = Some(rephrased_descriptions[TrimmedCode])
        /\ (TrimmedCode \notin DOMAIN rephrased_descriptions
                /\ Len(TrimmedCode) = 4
                /\ PaddedCode \in DOMAIN rephrased_descriptions)
                => lookup_result = Some(rephrased_descriptions[PaddedCode])
        /\ (TrimmedCode \notin DOMAIN rephrased_descriptions
                /\ Len(TrimmedCode) # 4)
                => IsNone(lookup_result)

\* A 4-character code given with a leading blank, absent itself from the
\* table, has got the entry of its padded form.
C20_Witness ==
    /\ lookup_code = Some(<<" ">> \o Code4)
    /\ Code4 \notin DOMAIN rephrased_descriptions
    /\ Code001234 \in DOMAIN rephrased_descriptions
    /\ lookup_result = Some("rephrased 01234")

-----------------------------------------------------------------------------
(* C21 *)

PassesValidation == ~SuppliedInvalidVersion /\ ~BlankInput

\* _classify_sic has raised its "Unsupported prompt version" error.
UnsupportedVersionRaised ==
    /\ IsSome(caught)
    /\ Val(caught).detail[1] = "Unsupported prompt version: "

\* C21: for a request that passes input validation the prompt version handed
\* to the SIC path is v1v2 or v3, supplied or taken from the configured
\* default, and the unsupported-version branch of _classify_sic is not taken.
C21_SicVersionAlwaysValid ==
    (pc # "start" /\ PassesValidation /\ WantsSic(req)) =>
        /\ prompt_version \in {Some("v1v2"), Some("v3")}
        /\ ~UnsupportedVersionRaised

-----------------------------------------------------------------------------
(* C22 *)

\* The place of an operation in a request's chain.
Stage(op) ==
    CASE op = "sic_search" -> 1
      [] op \in {"sa_rag_sic_code", "unambiguous_sic_code"} -> 2
      [] op = "formulate_open_question" -> 3
      [] op = "rephrase_lookup" -> 4
      [] op = "soc_search" -> 5

Ops == [i \in DOMAIN calls |-> calls[i].op]

\* C22: the operations of a request are made one after the other: the SIC
\* search has returned before an LLM call starts, the open question starts
\* only after the unambiguous call has returned, the rephrase lookups come
\* after the path's last LLM call, and with type sic_soc the SOC search
\* starts only once the SIC result exists.
C22_StrictSequence ==
    /\ \A i, j \in DOMAIN calls : i < j => Stage(calls[i].op) <= Stage(calls[j].op)
    /\ pc \in {"sp_llm", "ts_unamb"} => IsSome(short_list)
    /\ (Called("sa_rag_sic_code") \/ Called("unambiguous_sic_code"))
            => calls[1].op = "sic_search"
    /\ Called("formulate_open_question")
            => (Called("unambiguous_sic_code") /\ IsSome(llm_response))
    /\ Called("rephrase_lookup") => HasSicResult
    /\ (Called("soc_search") /\ WantsSic(req)) => HasSicResult
    /\ pc \in {"sp_search", "ts_search", "sp_llm", "ts_unamb", "ts_oq", "soc_search"}
            => Stage(calls[Len(calls)].op) =
                  CASE pc \in {"sp_search", "ts_search"} -> 1
                    [] pc \in {"sp_llm", "ts_unamb"} -> 2
                    [] pc = "ts_oq" -> 3
                    [] pc = "soc_search" -> 5

\* A sic_soc request has gone through every stage.
C22_Witness ==
    /\ Responded /\ req.type = "sic_soc"
    /\ Ops = <<"sic_search", "unambiguous_sic_code", "formulate_open_question",
               "rephrase_lookup", "rephrase_lookup", "soc_search">>

-----------------------------------------------------------------------------
(* C23 *)

Count(op) == Cardinality({i \in DOMAIN calls : calls[i].op = op})

OutboundOps ==
    {"sic_search", "soc_search", "sa_rag_sic_code", "unambiguous_sic_code",
     "formulate_open_question"}

SicLLMCalls ==
    Count("sa_rag_sic_code") + Count("unambiguous_sic_code")
        + Count("formulate_open_question")

\* C23: within one request each outbound operation is attempted at most
\* once, a call that failed is not made again (the request is over), a v3
\* request makes at most two SIC LLM calls and a v1v2 request at most one.
C23_AtMostOnce ==
    /\ \A op \in OutboundOps : Count(op) <= 1
    /\ IsSome(caught) => Done
    /\ prompt_version = Some("v3")
            => (SicLLMCalls <= 2 /\ Count("sa_rag_sic_code") = 0)
    /\ prompt_version = Some("v1v2")
            => (SicLLMCalls <= 1 /\ Count("sa_rag_sic_code") = SicLLMCalls)

\* The single-shot call has failed after one search and one attempt.
C23_Witness ==
    /\ Failed /\ IsSome(caught) /\ Val(caught).structured
    /\ Val(caught).detail[3] = "Single-prompt classification failed: "
    /\ Count("sic_search") = 1
    /\ Count("sa_rag_sic_code") = 1
    /\ Len(calls) = 2

-----------------------------------------------------------------------------
(* C26 *)

\* An exception has been caught while the SIC path ran / while the SOC path ran.
SicPathRaised == IsSome(caught) /\ WantsSic(req) /\ ~HasSicResult
SocPathRaised == IsSome(caught) /\ Called("soc_search")

\* C26: with type sic_soc, a SIC path that raises ends the request in an
\* error without any SOC shortlist search; a SOC path that raises after the
\* SIC result was built ends the request in an error too, and a response
\* always carries both results, never the SIC result alone.
C26_AllOrNothing ==
    req.type = "sic_soc" =>
        /\ SicPathRaised => (Failed /\ ~Called("soc_search"))
        /\ SocPathRaised => (Failed /\ HasSicResult)
        /\ IsSome(caught) => (SicPathRaised \/ SocPathRaised)
        /\ Responded => ResultTypes(Response.results) = <<"sic", "soc">>

\* The SOC search has failed after the SIC path produced its result.
C26_Witness ==
    /\ req.type = "sic_soc"
    /\ SocPathRaised /\ HasSicResult /\ SicResult.classified
    /\ Failed /\ Status = 500

-----------------------------------------------------------------------------
(* C25 *)

\* C25: provided every outbound call returns or raises, a classify
\* invocation ends, it ends with exactly one outcome (a response or an
\* error, present exactly when the invocation is over), and once the outcome
\* is there no further call is made and the outcome does not change.
C25_ReturnOnce ==
    /\ <>Done
    /\ [](Done <=> IsSome(outcome))
    /\ [](IsSome(outcome) => Val(outcome).kind \in {"response", "error"})
    /\ [][Done => (calls' = calls /\ outcome' = outcome /\ pc' = pc)]_vars

\* An invocation has ended in an error after three outbound calls.
C25_Witness ==
    /\ Failed
    /\ Ops = <<"sic_search", "unambiguous_sic_code", "formulate_open_question">>

-----------------------------------------------------------------------------
(* C29 *)

\* C29: process_classification_response leaves its argument as it was: the
\* caller's response_data, every dict of its sic_candidates list included,
\* has the contents it had before the call.
C29_ArgumentUnchanged ==
    IsSome(processed_response) => response_data = response_before

-----------------------------------------------------------------------------
(* C30 *)

\* C30: for every table and every code, has_rephrased_description says true
\* exactly when get_rephrased_description returns a description for the
\* same code, 4-character codes found after zero padding included.
C30_HasIffGet ==
    (IsSome(has_code) /\ has_code = lookup_code)
        => (Val(has_result) <=> IsSome(lookup_result))

-----------------------------------------------------------------------------
(* C27 *)

\* The code a classifier's candidate carries, under either strategy's name.
ClassifierCode(cl, i) ==
    IF cl.strategy = "single_prompt" THEN cl.list[i].sic_code
    ELSE cl.list[i].class_code

ClassifierDescriptive(cl, i) ==
    IF cl.strategy = "single_prompt" THEN cl.list[i].sic_descriptive
    ELSE cl.list[i].class_descriptive

\* C27: under both strategies, rephrasing enabled or not, result.candidates
\* has the length, the order, the codes and the likelihoods of the
\* classifier's candidate list; and when a rephrase lookup has raised,
\* every candidate has the classifier's descriptive as well: the original
\* list is returned, not a partly rephrased one.
C27_CandidateListPreserved ==
    ar_pc = "returned" =>
        LET out == Val(result_candidates)
            cl == Val(classifier_list)
        IN  /\ Len(out) = Len(cl.list)
            /\ \A i \in DOMAIN out :
                    /\ out[i].code = ClassifierCode(cl, i)
                    /\ out[i].likelihood = cl.list[i].likelihood
                    /\ lookup_raised
                          => out[i].descriptive = ClassifierDescriptive(cl, i)

\* The second lookup has raised after the first candidate was rephrased, and
\* the list returned is the one given.
C27_Witness ==
    /\ ar_pc = "returned" /\ lookup_raised
    /\ Len(rephrased_candidates) = 1
    /\ rephrased_candidates[1].descriptive # Val(ar_candidates)[1].descriptive
    /\ Len(Val(result_candidates)) = 2
    /\ result_candidates = ar_candidates

-----------------------------------------------------------------------------
(* C28 *)

\* The stored documents a listing is to return: those of the survey and
\* wave, and of the case when one is given.
Wanted(q) ==
    {i \in DOMAIN q.collection :
        /\ q.collection[i].data.survey_id = q.survey_id
        /\ q.collection[i].data.wave_id = q.wave_id
        /\ IsSome(q.case_id) => q.collection[i].data.case_id = Val(q.case_id)}

\* C28: list_survey_results without a case_id returns all stored results of
\* the survey and wave whatever their case_id, with a case_id exactly the
\* stored results matching the three identifiers, each with its
\* document_id, and count is the number of results returned.
C28_ListedResults ==
    (IsSome(list_response) /\ Val(list_response).kind = "response") =>
        LET q == Val(list_query)
            res == Val(list_response).results
        IN  /\ {res[i].document_id : i \in DOMAIN res}
                    = {q.collection[i].id : i \in Wanted(q)}
            /\ Len(res) = Cardinality(Wanted(q))
            /\ \A i \in DOMAIN res : \E j \in Wanted(q) :
                    /\ res[i].document_id = q.collection[j].id
                    /\ res[i].case_id = q.collection[j].data.case_id
            /\ Val(list_response).count = Len(res)

-----------------------------------------------------------------------------
(* C24 *)

\* The SIC result a request gets from the replies its own handler received.
SoloSicResult(c, table) ==
    IF c.prompt_version = Some(PROMPT_VERSION_V1V2)
    THEN build_single_prompt_result(c.req, table, Val(c.llm_response))
    ELSE IF UnambiguousMatch(Val(c.llm_response))
    THEN two_step_classified_result(c.req, table, Val(c.llm_response))
    ELSE two_step_followup_result(c.req, table, Val(c.llm_response),
                                  Val(c.oq_response))

\* The outcome of a request handled alone, given the table as loaded, the
\* replies its handler received and the exception it caught, if any.
SoloOutcome(c, table) ==
    LET v == validate_prompt_version(c.req.prompt_version, settings_default)
    IN  IF ~v.ok THEN ErrorOutcome(v.exc)
        ELSE IF EmptyInput(c.req) THEN ErrorOutcome(EmptyInputError)
        ELSE IF IsSome(c.caught)
        THEN ErrorOutcome(ClassifyTextExcept(Val(c.caught)))
        ELSE ResponseOutcome(build_response(c.req,
                (IF WantsSic(c.req) THEN <<SoloSicResult(c, table)>> ELSE <<>>)
                \o (IF WantsSoc(c.req) THEN <<soc_result>> ELSE <<>>)))

\* C24: however the handlers of two requests are interleaved at their
\* awaits, each request's response or error is the one it gets alone from
\* the same replies, and the rephrase table keeps the contents it was
\* loaded with.
C24_RequestsIndependent ==
    /\ rephrased_descriptions = Val(loaded_descriptions)
    /\ pc = "done"
            => outcome = Some(SoloOutcome(Locals, Val(loaded_descriptions)))
    /\ Val(waiting).pc = "done"
            => Val(waiting).outcome
                    = Some(SoloOutcome(Val(waiting), Val(loaded_descriptions)))

\* The two-step request has been answered, candidates looked up in the
\* table, while the SOC request was suspended on its search.
C24_Witness ==
    /\ running = 2
    /\ Responded
    /\ Called("formulate_open_question")
    /\ Called("rephrase_lookup")
    /\ Val(waiting).pc = "soc_search"

=============================================================================
